---- MODULE Spec2Model ----
(***************************************************************************)
(* Dream Journal Analyzer: the Entry type (dream.py), the flat-file store  *)
(* (journal.py), the mood-analysis pipeline (analyzer.py), the handlers of *)
(* the window (ui.py) and the counts of the charts (visualizer.py).        *)
(*                                                                         *)
(* Representation.                                                         *)
(*   - A Python str is a sequence of one-character strings.                *)
(*   - A Python value of unknown type (a constructor argument, a JSON      *)
(*     value) is a record [t, s, n]: t is the type tag, s the characters   *)
(*     of a str, n the number of an int or float.                          *)
(*   - A score is an integer count of 1/10000 (the scorer reports four     *)
(*     decimals): 0.5 is 5000, -0.1 is -1000.                              *)
(***************************************************************************)
EXTENDS Integers, Sequences, FiniteSets, TLC

VARIABLES
    ctor_args,      \* SpecDream: the arguments handed to Dream(...)
    ctor_ret,       \* SpecDream: what Dream(...) returned or raised
    ctor_done,      \* SpecDream: TRUE once Dream(...) was called
    dict_data,      \* SpecDream: the value handed to Dream.from_dict
    dict_src,       \* SpecDream: "input" when dict_data was given, "to_dict" when to_dict made it
    dict_ret,       \* SpecDream: what Dream.from_dict returned or raised
    dict_done,      \* SpecDream: TRUE once Dream.from_dict was called
    mood_scores,    \* SpecScores: the list handed to _create_mood_distribution_matrix
    category_idx,   \* SpecScores: per score, the run of _categorize_mood_recursive
    mood_matrix,    \* SpecScores: the matrix returned
    matrix_done,    \* SpecScores: TRUE once the matrix was computed
    fp_err,         \* the direction in which inexact float results are off
    file,           \* Spec: what dreams.json holds
    backup,         \* Spec: what dreams.json.backup holds
    tmp,            \* Spec: TRUE when dreams.json.tmp exists
    dreams,         \* Spec: journal.dreams
    lexicon,        \* Spec: the scorer, text -> compound score
    sia,            \* Spec: TRUE when the last DreamAnalyzer got its scorer
    result,         \* Spec: what the last analyze returned
    saved,          \* Spec: TRUE when the last operation ended with a save that worked
    op,             \* Spec: the last operation
    runs,           \* Spec: the number of analyses in a row, up to 2
    prev,           \* Spec: result, dreams, file and saved before the last analyze
    faults,         \* SpecJournal: the I/O faults met by the last operation
    message,        \* SpecJournal: the message box the last handler showed, "" for none
    ret,            \* SpecJournal: what the last delete_dream returned
    raised,         \* SpecJournal: the exception the last operation raised, "" for none
    arg,            \* SpecJournal: the argument of the last operation
    saving,         \* SpecJournal: the call of save_dreams in the last operation
    faulted,        \* SpecJournal: TRUE when a save_dreams of this run of the program met a fault
    labels,         \* SpecApp: the labels the last show_analysis put behind the dreams' scores
    chart,          \* SpecApp: what the distribution tab shows since the last change of the journal
    summary         \* SpecApp: what get_statistics_summary returned since the last change of the journal

dreamVars == <<ctor_args, ctor_ret, ctor_done, dict_data, dict_src, dict_ret, dict_done>>

storeVars == <<faults, message, ret, raised, arg, saving, faulted>>

scoreVars == <<mood_scores, category_idx, mood_matrix, matrix_done>>

journalVars == <<file, backup, tmp, dreams, lexicon, sia, result, saved, op, runs, prev>>

viewVars == <<labels, chart, summary>>

(***************************************************************************)
(* Characters and the str methods the program uses.                        *)
(***************************************************************************)
LowerSeq ==
    <<"a", "b", "c", "d", "e", "f", "g", "h", "i", "j", "k", "l", "m",
      "n", "o", "p", "q", "r", "s", "t", "u", "v", "w", "x", "y", "z">>

UpperSeq ==
    <<"A", "B", "C", "D", "E", "F", "G", "H", "I", "J", "K", "L", "M",
      "N", "O", "P", "Q", "R", "S", "T", "U", "V", "W", "X", "Y", "Z">>

\* str.strip() and str.split() with no argument act on whitespace.
Whitespace == {" ", "\t", "\n"}

Alpha == {LowerSeq[i] : i \in 1..Len(LowerSeq)} \cup {UpperSeq[i] : i \in 1..Len(UpperSeq)}

lower_char(c) ==
    IF \E i \in 1..Len(UpperSeq) : UpperSeq[i] = c
    THEN LowerSeq[CHOOSE i \in 1..Len(UpperSeq) : UpperSeq[i] = c]
    ELSE c

\* str.lower()
RECURSIVE lower(_)
lower(s) == IF s = <<>> THEN <<>> ELSE <<lower_char(Head(s))>> \o lower(Tail(s))

RECURSIVE lstrip(_, _)
lstrip(s, chars) ==
    IF s # <<>> /\ Head(s) \in chars THEN lstrip(Tail(s), chars) ELSE s

RECURSIVE rstrip(_, _)
rstrip(s, chars) ==
    IF s # <<>> /\ s[Len(s)] \in chars
    THEN rstrip(SubSeq(s, 1, Len(s) - 1), chars)
    ELSE s

\* str.strip(chars): drops leading and trailing characters that are in chars
strip_chars(s, chars) == rstrip(lstrip(s, chars), chars)

\* str.strip()
strip(s) == strip_chars(s, Whitespace)

RECURSIVE split_words(_, _)
split_words(s, cur) ==
    IF s = <<>>
    THEN IF cur = <<>> THEN <<>> ELSE <<cur>>
    ELSE IF Head(s) \in Whitespace
         THEN (IF cur = <<>> THEN <<>> ELSE <<cur>>) \o split_words(Tail(s), <<>>)
         ELSE split_words(Tail(s), Append(cur, Head(s)))

\* str.split(): the maximal runs of non-whitespace characters, in order
split(s) == split_words(s, <<>>)

\* str.isalpha(): non-empty and every character alphabetic
isalpha(w) == w # <<>> /\ \A i \in 1..Len(w) : w[i] \in Alpha

(***************************************************************************)
(* The texts and dates the model's journals are made of.                   *)
(***************************************************************************)
TextFlying ==
    <<"I", " ", "w", "a", "s", " ", "f", "l", "y", "i", "n", "g", " ",
      "o", "v", "e", "r", " ", "t", "h", "e", " ", "o", "c", "e", "a",
      "n", " ", "a", "n", "d", " ", "f", "l", "y", "i", "n", "g", " ",
      "a", "g", "a", "i", "n">>

TextFalling ==
    <<" ", "F", "a", "l", "l", "i", "n", "g", ".", " ", "T", "h", "e",
      " ", "D", "A", "R", "K", " ", "c", "a", "s", "t", "l", "e", ",",
      " ", "d", "a", "r", "k", " ", "r", "i", "v", "e", "r", "!", "\n">>

TextThemes ==
    <<"r", "i", "v", "e", "r", " ", "m", "o", "u", "n", "t", "a", "i",
      "n", " ", "f", "o", "r", "e", "s", "t", " ", "c", "a", "s", "t",
      "l", "e", " ", "d", "r", "a", "g", "o", "n", " ", "m", "i", "r",
      "r", "o", "r", " ", "g", "a", "r", "d", "e", "n", " ", "w", "i",
      "n", "d", "o", "w", " ", "s", "h", "a", "d", "o", "w", " ", "b",
      "r", "i", "d", "g", "e", " ", "c", "a", "n", "d", "l", "e", " ",
      "r", "i", "v", "e", "r", " ", "c", "a", "n", "d", "l", "e">>

TextBlank ==
    <<" ", "\t">>

Date1 ==
    <<"2", "0", "2", "4", "-", "0", "1", "-", "0", "5">>

Date2 ==
    <<"2", "0", "2", "4", "-", "0", "2", "-", "2", "9">>

\* the texts a Dream made from the pool can have
JournalTexts == {TextFlying, strip(TextFalling), TextThemes, strip(TextBlank)}

(***************************************************************************)
(* Python values whose type the code tests.                                *)
(***************************************************************************)
PyStr(s)   == [t |-> "str",   s |-> s,    n |-> 0]
PyNone     == [t |-> "none",  s |-> <<>>, n |-> 0]
PyInt(n)   == [t |-> "int",   s |-> <<>>, n |-> n]
PyFloat(n) == [t |-> "float", s |-> <<>>, n |-> n]

\* bool(v): "not v" is ~truthy(v)
truthy(v) ==
    CASE v.t = "str"   -> v.s # <<>>
      [] v.t = "none"  -> FALSE
      [] v.t = "int"   -> v.n # 0
      [] v.t = "float" -> v.n # 0

\* isinstance(v, str)
isinstance_str(v) == v.t = "str"

(***************************************************************************)
(* dream.py                                                                *)
(***************************************************************************)
NoDream == [text |-> <<>>, date |-> <<>>, mood_score |-> PyNone]

Returned(d) == [raised |-> "",  msg |-> "",  dream |-> d]
Raised(e, m) == [raised |-> e, msg |-> m, dream |-> NoDream]

\* A mutant of Dream: the date is tested before the text.
DreamDateFirst(text, date, mood_score) ==
    IF ~truthy(date) \/ ~isinstance_str(date)
    THEN Raised("ValueError", "Dream date must be a non-empty string")
    ELSE IF ~truthy(text) \/ ~isinstance_str(text)
    THEN Raised("ValueError", "Dream text must be a non-empty string")
    ELSE Returned([text |-> strip(text.s), date |-> date.s, mood_score |-> mood_score])

\* Dream.__init__: the text is tested as given, and stripped afterwards.
Dream(text, date, mood_score) ==
    IF ~truthy(text) \/ ~isinstance_str(text)
    THEN Raised("ValueError", "Dream text must be a non-empty string")
    ELSE IF ~truthy(date) \/ ~isinstance_str(date)
    THEN Raised("ValueError", "Dream date must be a non-empty string")
    ELSE Returned([text |-> strip(text.s), date |-> date.s, mood_score |-> mood_score])

(***************************************************************************)
(* dream.py: records.  A JSON value read from the file is a record         *)
(* [t, keys, text, date, mood_score]: t is "dict" for an object, keys the  *)
(* keys it has, and text, date, mood_score the values under them.          *)
(***************************************************************************)
JsonObject(keys, text, date, mood_score) ==
    [t |-> "dict", keys |-> keys, text |-> text, date |-> date, mood_score |-> mood_score]

\* a JSON value that is no object (a number, a string, an array, null)
JsonOther == [t |-> "other", keys |-> {}, text |-> PyNone, date |-> PyNone, mood_score |-> PyNone]

\* Dream.to_dict
to_dict(d) ==
    JsonObject({"text", "date", "mood_score"}, PyStr(d.text), PyStr(d.date), d.mood_score)

\* A mutant of from_dict: the keys are looked for before the type is tested.
from_dict_keys_first(data) ==
    IF "text" \notin data.keys
    THEN Raised("KeyError", "Missing required field: text")
    ELSE IF "date" \notin data.keys
    THEN Raised("KeyError", "Missing required field: date")
    ELSE IF data.t # "dict"
    THEN Raised("TypeError", "Data must be a dictionary")
    ELSE Dream(data.text, data.date,
               IF "mood_score" \in data.keys THEN data.mood_score ELSE PyNone)

\* Dream.from_dict; data.get("mood_score") is None when the key is absent
from_dict(data) ==
    IF data.t # "dict"
    THEN Raised("TypeError", "Data must be a dictionary")
    ELSE IF "text" \notin data.keys
    THEN Raised("KeyError", "Missing required field: text")
    ELSE IF "date" \notin data.keys
    THEN Raised("KeyError", "Missing required field: date")
    ELSE Dream(data.text, data.date,
               IF "mood_score" \in data.keys THEN data.mood_score ELSE PyNone)

(***************************************************************************)
(* journal.py.  A file is [kind, records]: kind is "absent" (no such       *)
(* file), "array" (a JSON array, its elements in records), "other" (valid  *)
(* JSON that is no array) or "garbage" (not valid JSON).                   *)
(***************************************************************************)
FileAbsent == [kind |-> "absent", records |-> <<>>]

FileArray(records) == [kind |-> "array", records |-> records]

FileOther == [kind |-> "other", records |-> <<>>]

FileGarbage == [kind |-> "garbage", records |-> <<>>]

RECURSIVE to_dicts(_)
to_dicts(ds) == IF ds = <<>> THEN <<>> ELSE <<to_dict(Head(ds))>> \o to_dicts(Tail(ds))

\* DreamJournal.reset_file: the file becomes the empty array, unless the
\* write fails (the error is printed)
reset_file(f, fails) == IF fails THEN f ELSE FileArray(<<>>)

Loaded(ds, f, b) == [dreams |-> ds, file |-> f, backup |-> b]

\* The loop of load_dreams (journal.py:30-38) over the elements still to read:
\* a KeyError or TypeError skips the element, any other exception leaves the
\* loop.  [raised, dreams]
RECURSIVE load_entries(_, _)
load_entries(records, acc) ==
    IF records = <<>> THEN [raised |-> "", dreams |-> acc]
    ELSE LET r == from_dict(Head(records))
         IN  IF r.raised = ""
             THEN load_entries(Tail(records), Append(acc, r.dream))
             ELSE IF r.raised \in {"KeyError", "TypeError"}
             THEN load_entries(Tail(records), acc)
             ELSE [raised |-> r.raised, dreams |-> acc]

\* A mutant of load_dreams: a file that is no JSON is reset without a backup.
load_dreams_no_backup(f, b, io) ==
    IF f.kind = "absent" THEN Loaded(<<>>, f, b)
    ELSE IF io.read_fails THEN Loaded(<<>>, f, b)
    ELSE IF f.kind \in {"garbage", "other"}
    THEN Loaded(<<>>, reset_file(f, io.reset_fails), b)
    ELSE LET r == load_entries(f.records, <<>>)
         IN  IF r.raised = "" THEN Loaded(r.dreams, f, b) ELSE Loaded(<<>>, f, b)

\* DreamJournal.load_dreams, with the files before (f the journal, b the
\* backup) and what the file system does (io.read_fails: the file cannot be
\* opened or read; io.rename_fails; io.reset_fails).
load_dreams(f, b, io) ==
    IF f.kind = "absent" THEN Loaded(<<>>, f, b)
    ELSE IF io.read_fails THEN Loaded(<<>>, f, b)
    ELSE IF f.kind = "garbage"
    THEN IF io.rename_fails
         THEN Loaded(<<>>, reset_file(f, io.reset_fails), b)
         ELSE Loaded(<<>>, reset_file(FileAbsent, io.reset_fails), f)
    ELSE IF f.kind = "other"
    THEN Loaded(<<>>, reset_file(f, io.reset_fails), b)
    ELSE LET r == load_entries(f.records, <<>>)
         IN  IF r.raised = "" THEN Loaded(r.dreams, f, b) ELSE Loaded(<<>>, f, b)

LoadIO == [read_fails : BOOLEAN, rename_fails : BOOLEAN, reset_fails : BOOLEAN]

NoFailure == [read_fails |-> FALSE, rename_fails |-> FALSE, reset_fails |-> FALSE]

\* what the file system does during save_dreams: every step works ("ok"), or
\* the temporary file cannot be opened, or writing it fails, or replacing
\* the journal file fails; remove_fails: the clean-up os.remove fails too
SaveIO == [step : {"ok", "open_fails", "write_fails", "replace_fails"}, remove_fails : BOOLEAN]

SaveOk == [step |-> "ok", remove_fails |-> FALSE]

Saved(ok, f, t) == [ok |-> ok, file |-> f, tmp |-> t]

\* A mutant of save_dreams: the temporary file is not removed after a fault.
save_dreams_no_cleanup(ds, f, t, io) ==
    IF io.step = "ok" THEN Saved(TRUE, FileArray(to_dicts(ds)), FALSE)
    ELSE IF io.step = "open_fails" THEN Saved(FALSE, f, t)
    ELSE Saved(FALSE, f, TRUE)

\* DreamJournal.save_dreams, with the journal file f and whether the
\* temporary file exists (t) before.  [ok, file, tmp]
save_dreams(ds, f, t, io) ==
    IF io.step = "ok" THEN Saved(TRUE, FileArray(to_dicts(ds)), FALSE)
    ELSE IF io.step = "open_fails" THEN Saved(FALSE, f, IF t THEN io.remove_fails ELSE FALSE)
    ELSE Saved(FALSE, f, io.remove_fails)

(***************************************************************************)
(* Floating point.  A score is a double that prints with four decimals;    *)
(* the model keeps it as an integer count of 1/10000.  Comparisons of two  *)
(* such doubles agree with the comparison of the integers.  A quotient     *)
(* sum(xs) / len(xs) is kept as the exact fraction num/den together with   *)
(* err, the sign of the rounding error the running sum and the division    *)
(* left on it: the double is the fraction (err = 0) or lies just above     *)
(* (err = 1) or just below it (err = -1), by far less than any difference  *)
(* of two distinct fractions the model forms.  The rounding itself is not  *)
(* computed: fp_err stands for what the hardware does, fixed throughout a  *)
(* behaviour because the arithmetic is deterministic.  The quotient is     *)
(* exact where IEEE-754 arithmetic guarantees it: one addend (0 + x is x,  *)
(* x / 1 is x), two equal addends (2x and 2x / 2 are exact) and equal      *)
(* addends that are dyadic rationals (multiples of 1/16 = 625/10000).      *)
(***************************************************************************)
FpErrs == {-1, 0, 1}

RECURSIVE sum(_)
sum(xs) == IF xs = <<>> THEN 0 ELSE Head(xs) + sum(Tail(xs))

seq_min(xs) == CHOOSE x \in {xs[i] : i \in 1..Len(xs)} : \A j \in 1..Len(xs) : x <= xs[j]

seq_max(xs) == CHOOSE x \in {xs[i] : i \in 1..Len(xs)} : \A j \in 1..Len(xs) : x >= xs[j]

Fraction(num, den, err) == [num |-> num, den |-> den, err |-> err]

FloatZero == Fraction(0, 1, 0)

all_equal(xs) == \A i, j \in 1..Len(xs) : xs[i] = xs[j]

quotient_is_exact(xs) ==
    \/ Len(xs) = 1
    \/ all_equal(xs) /\ (Len(xs) = 2 \/ xs[1] % 625 = 0)

\* sum(xs) / len(xs), for a non-empty list xs of scores
float_mean(xs, err) ==
    Fraction(sum(xs), Len(xs), IF quotient_is_exact(xs) THEN 0 ELSE err)

\* comparisons of a quotient q with a score x (both in units of 1/10000)
FracLeq(q, x) == q.num < x * q.den \/ (q.num = x * q.den /\ q.err <= 0)

FracGeq(q, x) == q.num > x * q.den \/ (q.num = x * q.den /\ q.err >= 0)

(***************************************************************************)
(* analyzer.py: the bucket classification and the mood matrix.             *)
(***************************************************************************)
CategorizeMaxDepth == 10

RangeMaxDepth == 5

\* A mutant of _is_in_range_recursive: the lower boundary is excluded.
RECURSIVE is_in_range_exclusive(_, _, _, _)
is_in_range_exclusive(value, min_val, max_val, depth) ==
    IF depth >= RangeMaxDepth
    THEN min_val < value /\ value < max_val
    ELSE IF value <= min_val THEN FALSE
    ELSE IF value >= max_val THEN FALSE
    ELSE is_in_range_exclusive(value, min_val, max_val, depth + 1)

\* DreamAnalyzer._is_in_range_recursive (max_depth keeps its default)
RECURSIVE is_in_range_recursive(_, _, _, _)
is_in_range_recursive(value, min_val, max_val, depth) ==
    IF depth >= RangeMaxDepth
    THEN min_val <= value /\ value < max_val
    ELSE IF value < min_val THEN FALSE
    ELSE IF value >= max_val THEN FALSE
    ELSE is_in_range_recursive(value, min_val, max_val, depth + 1)

\* DreamAnalyzer._categorize_mood_recursive (max_depth keeps its default).
\* The result carries, beside the index returned, whether it came from the
\* depth-limit base case.
RECURSIVE categorize_run(_, _)
categorize_run(score, depth) ==
    IF depth >= CategorizeMaxDepth
    THEN [idx |-> 2, hit_limit |-> TRUE]
    ELSE IF score >= 5000
    THEN [idx |-> 0, hit_limit |-> FALSE]
    ELSE IF score >= 1000
    THEN IF is_in_range_recursive(score, 1000, 5000, depth + 1)
         THEN [idx |-> 1, hit_limit |-> FALSE]
         ELSE categorize_run(score, depth + 1)
    ELSE IF score >= -1000
    THEN [idx |-> 2, hit_limit |-> FALSE]
    ELSE IF score >= -5000
    THEN IF is_in_range_recursive(score, -5000, -1000, depth + 1)
         THEN [idx |-> 3, hit_limit |-> FALSE]
         ELSE categorize_run(score, depth + 1)
    ELSE [idx |-> 4, hit_limit |-> FALSE]

categorize_mood_recursive(score, depth) == categorize_run(score, depth).idx

\* category_scores[i] of _create_mood_distribution_matrix
RECURSIVE category_scores(_, _)
category_scores(scores, i) ==
    IF scores = <<>> THEN <<>>
    ELSE IF categorize_mood_recursive(Head(scores), 0) = i
         THEN <<Head(scores)>> \o category_scores(Tail(scores), i)
         ELSE category_scores(Tail(scores), i)

ScoreMax == 10000

ScoreMin == -ScoreMax

MatrixRow(count, lo, hi, avg) == [count |-> count, min |-> lo, max |-> hi, avg |-> avg]

\* A mutant of _create_mood_distribution_matrix: the minimum and the maximum
\* of a bucket change places.
create_mood_distribution_matrix_swapped(scores, err) ==
    [i \in 1..5 |->
        LET cs == category_scores(scores, i - 1)
        IN  IF cs # <<>>
            THEN MatrixRow(Len(cs), seq_max(cs), seq_min(cs), float_mean(cs, err))
            ELSE MatrixRow(0, ScoreMax, ScoreMin, FloatZero)]

\* DreamAnalyzer._create_mood_distribution_matrix: row i + 1 is bucket i.
create_mood_distribution_matrix(scores, err) ==
    [i \in 1..5 |->
        LET cs == category_scores(scores, i - 1)
        IN  IF cs # <<>>
            THEN MatrixRow(Len(cs), seq_min(cs), seq_max(cs), float_mean(cs, err))
            ELSE MatrixRow(0, ScoreMax, ScoreMin, FloatZero)]

(***************************************************************************)
(* analyzer.py: theme extraction.                                          *)
(***************************************************************************)
stop_words ==
    { <<"t", "h", "e">>, <<"a">>, <<"a", "n">>, <<"a", "n", "d">>, <<"o", "r">>,
      <<"b", "u", "t">>, <<"i", "n">>, <<"o", "n">>, <<"a", "t">>, <<"t", "o">>,
      <<"f", "o", "r">>, <<"o", "f">>, <<"w", "i", "t", "h">>, <<"b", "y">>,
      <<"f", "r", "o", "m">>, <<"u", "p">>, <<"a", "b", "o", "u", "t">>, <<"i", "n", "t", "o">>,
      <<"t", "h", "r", "o", "u", "g", "h">>, <<"d", "u", "r", "i", "n", "g">>,
      <<"b", "e", "f", "o", "r", "e">>, <<"a", "f", "t", "e", "r">>, <<"a", "b", "o", "v", "e">>,
      <<"b", "e", "l", "o", "w">>, <<"b", "e", "t", "w", "e", "e", "n">>,
      <<"u", "n", "d", "e", "r">>, <<"a", "g", "a", "i", "n">>,
      <<"f", "u", "r", "t", "h", "e", "r">>, <<"t", "h", "e", "n">>, <<"o", "n", "c", "e">>,
      <<"h", "e", "r", "e">>, <<"t", "h", "e", "r", "e">>, <<"w", "h", "e", "n">>,
      <<"w", "h", "e", "r", "e">>, <<"w", "h", "y">>, <<"h", "o", "w">>, <<"a", "l", "l">>,
      <<"b", "o", "t", "h">>, <<"e", "a", "c", "h">>, <<"f", "e", "w">>, <<"m", "o", "r", "e">>,
      <<"m", "o", "s", "t">>, <<"o", "t", "h", "e", "r">>, <<"s", "o", "m", "e">>,
      <<"s", "u", "c", "h">>, <<"n", "o">>, <<"n", "o", "r">>, <<"n", "o", "t">>,
      <<"o", "n", "l", "y">>, <<"o", "w", "n">>, <<"s", "a", "m", "e">>, <<"s", "o">>,
      <<"t", "h", "a", "n">>, <<"t", "o", "o">>, <<"v", "e", "r", "y">>, <<"s">>, <<"t">>,
      <<"c", "a", "n">>, <<"w", "i", "l", "l">>, <<"j", "u", "s", "t">>, <<"d", "o", "n">>,
      <<"s", "h", "o", "u", "l", "d">>, <<"n", "o", "w">>, <<"w", "a", "s">>,
      <<"w", "e", "r", "e">>, <<"b", "e", "e", "n">>, <<"b", "e", "i", "n", "g">>,
      <<"h", "a", "v", "e">>, <<"h", "a", "s">>, <<"h", "a", "d">>,
      <<"h", "a", "v", "i", "n", "g">>, <<"d", "o">>, <<"d", "o", "e", "s">>, <<"d", "i", "d">>,
      <<"d", "o", "i", "n", "g">>, <<"a", "m">>, <<"i", "s">>, <<"a", "r", "e">>, <<"b", "e">>,
      <<"a", "s">>, <<"i">>, <<"m", "e">>, <<"m", "y">>, <<"m", "y", "s", "e", "l", "f">>,
      <<"w", "e">>, <<"o", "u", "r">>, <<"o", "u", "r", "s">>,
      <<"o", "u", "r", "s", "e", "l", "v", "e", "s">>, <<"y", "o", "u">>, <<"y", "o", "u", "r">>,
      <<"y", "o", "u", "r", "s">>, <<"y", "o", "u", "r", "s", "e", "l", "f">>,
      <<"y", "o", "u", "r", "s", "e", "l", "v", "e", "s">>, <<"h", "e">>, <<"h", "i", "m">>,
      <<"h", "i", "s">>, <<"h", "i", "m", "s", "e", "l", "f">>, <<"s", "h", "e">>,
      <<"h", "e", "r">>, <<"h", "e", "r", "s">>, <<"h", "e", "r", "s", "e", "l", "f">>,
      <<"i", "t">>, <<"i", "t", "s">>, <<"i", "t", "s", "e", "l", "f">>, <<"t", "h", "e", "y">>,
      <<"t", "h", "e", "m">>, <<"t", "h", "e", "i", "r">>, <<"t", "h", "e", "i", "r", "s">>,
      <<"t", "h", "e", "m", "s", "e", "l", "v", "e", "s">>, <<"w", "h", "a", "t">>,
      <<"w", "h", "i", "c", "h">>, <<"w", "h", "o">>, <<"w", "h", "o", "m">>,
      <<"t", "h", "i", "s">>, <<"t", "h", "a", "t">>, <<"t", "h", "e", "s", "e">>,
      <<"t", "h", "o", "s", "e">>, <<"i", "f">>, <<"b", "e", "c", "a", "u", "s", "e">>,
      <<"w", "h", "i", "l", "e">>, <<"o", "u", "t">>, <<"o", "f", "f">>, <<"o", "v", "e", "r">>,
      <<"d", "o", "w", "n">> }

\* the characters of word.strip('.,!?;:()[]{}""\'')
StripPunctuation ==
    {".", ",", "!", "?", ";", ":", "(", ")", "[", "]", "{", "}", "\"", "'"}

\* the condition of the list comprehension (analyzer.py:75)
keeps_word(word) == isalpha(word) /\ Len(word) > 2 /\ lower(word) \notin stop_words

\* A mutant of filter_words: the punctuation is stripped before the test.
RECURSIVE filter_words_strip_first(_)
filter_words_strip_first(words) ==
    IF words = <<>> THEN <<>>
    ELSE (IF keeps_word(strip_chars(Head(words), StripPunctuation))
          THEN <<strip_chars(Head(words), StripPunctuation)>>
          ELSE <<>>) \o filter_words_strip_first(Tail(words))

\* the list comprehension (analyzer.py:72-76)
RECURSIVE filter_words(_)
filter_words(words) ==
    IF words = <<>> THEN <<>>
    ELSE (IF keeps_word(Head(words))
          THEN <<strip_chars(Head(words), StripPunctuation)>>
          ELSE <<>>) \o filter_words(Tail(words))

\* filtered_words of one dream (analyzer.py:71-76)
filtered_words(text) == filter_words(split(lower(text)))

\* all_words after the loop over the dreams (analyzer.py:77)
\* filtered_words of the model's texts, computed once
FilteredWords == [text \in JournalTexts |-> filtered_words(text)]

RECURSIVE all_words_of(_)
all_words_of(ds) ==
    IF ds = <<>> THEN <<>>
    ELSE (IF Head(ds).text \in JournalTexts
          THEN FilteredWords[Head(ds).text]
          ELSE filtered_words(Head(ds).text)) \o all_words_of(Tail(ds))

\* the keys of a Counter: the distinct words, in the order they first occur
RECURSIVE counter_keys(_, _)
counter_keys(words, seen) ==
    IF words = <<>> THEN <<>>
    ELSE IF Head(words) \in seen
         THEN counter_keys(Tail(words), seen)
         ELSE <<Head(words)>> \o counter_keys(Tail(words), seen \cup {Head(words)})

count_of(words, w) == Cardinality({i \in 1..Len(words) : words[i] = w})

RECURSIVE counter_items(_, _)
counter_items(keys, words) ==
    IF keys = <<>> THEN <<>>
    ELSE <<[word |-> Head(keys), count |-> count_of(words, Head(keys))]>>
         \o counter_items(Tail(keys), words)

\* Counter(words).items()
Counter(words) == counter_items(counter_keys(words, {}), words)

\* A mutant of insert_sorted: an item goes before the items of equal count.
RECURSIVE insert_sorted_unstable(_, _)
insert_sorted_unstable(sorted, item) ==
    IF sorted = <<>> THEN <<item>>
    ELSE IF Head(sorted).count > item.count
         THEN <<Head(sorted)>> \o insert_sorted_unstable(Tail(sorted), item)
         ELSE <<item>> \o sorted

\* One step of the stable descending sort behind most_common (heapq.nlargest is
\* sorted(items, key=count, reverse=True)[:n]): the item goes after every item
\* whose count is not smaller.
RECURSIVE insert_sorted(_, _)
insert_sorted(sorted, item) ==
    IF sorted = <<>> THEN <<item>>
    ELSE IF Head(sorted).count >= item.count
         THEN <<Head(sorted)>> \o insert_sorted(Tail(sorted), item)
         ELSE <<item>> \o sorted

RECURSIVE sort_by_count(_, _)
sort_by_count(items, acc) ==
    IF items = <<>> THEN acc
    ELSE sort_by_count(Tail(items), insert_sorted(acc, Head(items)))

TopThemes == 10

\* Counter.most_common(n)
most_common(items, n) ==
    LET sorted == sort_by_count(items, <<>>)
    IN  SubSeq(sorted, 1, IF n < Len(sorted) THEN n ELSE Len(sorted))

RECURSIVE words_of(_)
words_of(items) == IF items = <<>> THEN <<>> ELSE <<Head(items).word>> \o words_of(Tail(items))

\* top_themes (analyzer.py:86-87)
top_themes_of(all_words) == words_of(most_common(Counter(all_words), TopThemes))

(***************************************************************************)
(* analyzer.py: the average.                                               *)
(***************************************************************************)
\* A mutant of round3: the digits after the third are cut off.
round3_truncating(q, err) == q.num \div (q.den * 10)

\* round(q, 3), in thousandths: the double q goes to the nearest thousandth.
\* When the fraction is half-way between two thousandths, the double that
\* stands for it almost always lies on one side (neither the scores nor the
\* quotient are exact): err says which, 0 counting as above.  Only a half-way
\* value that is a dyadic rational, (2k+1)/2000 with 125 | 2k+1, reached
\* without rounding error, is a double itself: round() takes it to the even
\* neighbour.
round3(q, err) ==
    LET d == q.den * 10
        lo == q.num \div d
        r == q.num % d
    IN  IF 2 * r < d THEN lo
        ELSE IF 2 * r > d THEN lo + 1
        ELSE IF q.err = 0 /\ (2 * lo + 1) % 125 = 0
             THEN (IF lo % 2 = 0 THEN lo ELSE lo + 1)
             ELSE (IF err >= 0 THEN lo + 1 ELSE lo)

(***************************************************************************)
(* analyzer.py: analyze.                                                   *)
(***************************************************************************)
NoMatrix == [i \in 1..5 |-> MatrixRow(0, 0, 0, FloatZero)]

\* what analyze returns: one of the two messages, or the statistics
NoResult ==
    [kind |-> "none", total_dreams |-> 0, average_mood |-> 0,
     top_themes |-> <<>>, mood_matrix |-> NoMatrix]

\* "No dreams to analyze. Start recording your dreams!"
EmptyResult == [NoResult EXCEPT !.kind = "empty"]

\* "Sentiment analyzer not available. Please check NLTK installation."
UnavailableResult == [NoResult EXCEPT !.kind = "unavailable"]

\* the scores of the loop (analyzer.py:64-68): lex is sia.polarity_scores(text)["compound"]
RECURSIVE scores_of(_, _)
scores_of(ds, lex) ==
    IF ds = <<>> THEN <<>> ELSE <<lex[Head(ds).text]>> \o scores_of(Tail(ds), lex)

\* A mutant of scored: a dream that has a score keeps it.
RECURSIVE scored_only_new(_, _)
scored_only_new(ds, lex) ==
    IF ds = <<>> THEN <<>>
    ELSE <<IF Head(ds).mood_score = PyNone
           THEN [Head(ds) EXCEPT !.mood_score = PyFloat(lex[Head(ds).text])]
           ELSE Head(ds)>> \o scored_only_new(Tail(ds), lex)

\* the dreams after the loop: dream.mood_score = score (analyzer.py:67)
RECURSIVE scored(_, _)
scored(ds, lex) ==
    IF ds = <<>> THEN <<>>
    ELSE <<[Head(ds) EXCEPT !.mood_score = PyFloat(lex[Head(ds).text])]>> \o scored(Tail(ds), lex)

\* avg_score (analyzer.py:83)
avg_score_of(scores, err) == IF scores # <<>> THEN float_mean(scores, err) ELSE FloatZero

\* the dictionary returned (analyzer.py:82-97)
statistics(ds, scores, all_words, err) ==
    [kind |-> "stats",
     total_dreams |-> Len(ds),
     average_mood |-> round3(avg_score_of(scores, err), err),
     top_themes |-> top_themes_of(all_words),
     mood_matrix |-> create_mood_distribution_matrix(scores, err)]

Analyzed(res, ds, saves) == [result |-> res, dreams |-> ds, saves |-> saves]

\* A mutant of analyze: the scorer is looked at before the journal.
analyze_scorer_first(ds, lex, sia_available, err) ==
    IF ~sia_available THEN Analyzed(UnavailableResult, ds, FALSE)
    ELSE IF ds = <<>> THEN Analyzed(EmptyResult, ds, FALSE)
    ELSE Analyzed(statistics(ds, scores_of(ds, lex), all_words_of(ds), err), scored(ds, lex), TRUE)

\* DreamAnalyzer.analyze on the journal's dreams ds: what it returns, the
\* dreams it leaves in the journal, and whether it calls save_dreams (which
\* then writes the dreams it leaves).
analyze(ds, lex, sia_available, err) ==
    IF ds = <<>> THEN Analyzed(EmptyResult, ds, FALSE)
    ELSE IF ~sia_available THEN Analyzed(UnavailableResult, ds, FALSE)
    ELSE Analyzed(statistics(ds, scores_of(ds, lex), all_words_of(ds), err), scored(ds, lex), TRUE)

(***************************************************************************)
(* visualizer.py and ui.py: the mood distribution and the label of a       *)
(* score.  A mood_score is None or a number here.                          *)
(***************************************************************************)
MoodCategories == <<"Very Positive", "Positive", "Neutral", "Negative", "Very Negative">>

\* the dictionary both loops start from
ZeroCounts == [c \in {MoodCategories[i] : i \in 1..5} |-> 0]

\* the loop of create_mood_distribution over the dreams still to count
RECURSIVE distribution_categories(_, _)
distribution_categories(ds, categories) ==
    IF ds = <<>> THEN categories
    ELSE IF Head(ds).mood_score # PyNone
    THEN LET score == Head(ds).mood_score.n
             c == IF score >= 5000 THEN "Very Positive"
                  ELSE IF score >= 1000 THEN "Positive"
                  ELSE IF score >= -1000 THEN "Neutral"
                  ELSE IF score >= -5000 THEN "Negative"
                  ELSE "Very Negative"
         IN  distribution_categories(Tail(ds), [categories EXCEPT ![c] = @ + 1])
    ELSE distribution_categories(Tail(ds), categories)

\* what the distribution tab shows: nothing yet, one of the two notices, or
\* the bars
Chart(shows, bars) == [shows |-> shows, bars |-> bars]

NoChart == Chart("nothing", ZeroCounts)

\* DreamVisualizer.create_mood_distribution: the heights of the bars, or
\* None without matplotlib
create_mood_distribution(ds, matplotlib) ==
    IF ~matplotlib THEN Chart("no_scores", ZeroCounts)
    ELSE Chart("bars", distribution_categories(ds, ZeroCounts))

\* DreamUI.refresh_distribution, with a visualizer
refresh_distribution(ds, matplotlib) ==
    IF ds = <<>> THEN Chart("no_dreams", ZeroCounts)
    ELSE create_mood_distribution(ds, matplotlib)

\* the loop of get_statistics_summary over the dreams still to count
RECURSIVE summary_counts(_, _)
summary_counts(ds, mood_counts) ==
    IF ds = <<>> THEN mood_counts
    ELSE IF Head(ds).mood_score # PyNone
    THEN LET score == Head(ds).mood_score.n
             c == IF score >= 5000 THEN "Very Positive"
                  ELSE IF score >= 1000 THEN "Positive"
                  ELSE IF score >= -1000 THEN "Neutral"
                  ELSE IF score >= -5000 THEN "Negative"
                  ELSE "Very Negative"
         IN  summary_counts(Tail(ds), [mood_counts EXCEPT ![c] = @ + 1])
    ELSE summary_counts(Tail(ds), mood_counts)

Summary(kind, total, counts, has_scores) ==
    [kind |-> kind, total_dreams |-> total, mood_distribution |-> counts,
     has_mood_scores |-> has_scores]

\* get_statistics_summary was not called
NoSummary == Summary("nothing", 0, ZeroCounts, FALSE)

\* DreamVisualizer.get_statistics_summary: None for an empty journal
get_statistics_summary(ds) ==
    IF ds = <<>> THEN Summary("none", 0, ZeroCounts, FALSE)
    ELSE Summary("dict", Len(ds), summary_counts(ds, ZeroCounts),
                 \E i \in 1..Len(ds) : ds[i].mood_score # PyNone)

\* A mutant of interpret_mood: -0.5 itself is Very Negative.
interpret_mood_below_half(score) ==
    IF score = PyNone THEN ""
    ELSE IF score.n >= 5000 THEN "(Very Positive)"
    ELSE IF score.n >= 1000 THEN "(Positive)"
    ELSE IF score.n >= -1000 THEN "(Neutral)"
    ELSE IF score.n > -5000 THEN "(Negative)"
    ELSE "(Very Negative)"

\* DreamUI.interpret_mood: the label without its emoji
interpret_mood(score) ==
    IF score = PyNone THEN ""
    ELSE IF score.n >= 5000 THEN "(Very Positive)"
    ELSE IF score.n >= 1000 THEN "(Positive)"
    ELSE IF score.n >= -1000 THEN "(Neutral)"
    ELSE IF score.n >= -5000 THEN "(Negative)"
    ELSE "(Very Negative)"

\* the lines of show_analysis under "Individual Dream Mood Scores": the
\* label behind each dream's score, none for a dream without a score
mood_interps(ds) ==
    [i \in 1..Len(ds) |->
        IF ds[i].mood_score # PyNone THEN interpret_mood(ds[i].mood_score) ELSE ""]

IdleView ==
    /\ labels = <<>>
    /\ chart = NoChart
    /\ summary = NoSummary

(***************************************************************************)
(* SpecScores: the matrix of every list of scores: every single score of   *)
(* [-1.0, 1.0], and every list of up to MaxScores scores out of some that  *)
(* are doubles exactly (-1.0, -0.5, 0.0, 0.5, 1.0) and some that are not   *)
(* and whose sums round (three times 0.1 is 0.30000000000000004).          *)
(***************************************************************************)
MaxScores == 3

ScoreSamples == {ScoreMin, -5000, -1001, -1000, 0, 1000, 1001, 5000, 9999, ScoreMax}

RECURSIVE SeqsUpTo(_, _)
SeqsUpTo(S, n) ==
    IF n = 0 THEN {<<>>}
    ELSE LET shorter == SeqsUpTo(S, n - 1)
         IN  shorter \cup {Append(q, x) : q \in {p \in shorter : Len(p) = n - 1}, x \in S}

InitScores ==
    /\ mood_scores \in {<<x>> : x \in ScoreMin..ScoreMax} \cup SeqsUpTo(ScoreSamples, MaxScores)
    /\ fp_err \in FpErrs
    /\ category_idx = <<>>
    /\ mood_matrix = NoMatrix
    /\ matrix_done = FALSE

IdleScores ==
    /\ mood_scores = <<>>
    /\ category_idx = <<>>
    /\ mood_matrix = NoMatrix
    /\ matrix_done = FALSE

\* the loop and the return of _create_mood_distribution_matrix
CreateMatrix ==
    /\ ~matrix_done
    /\ category_idx' = [i \in 1..Len(mood_scores) |-> categorize_run(mood_scores[i], 0)]
    /\ mood_matrix' = create_mood_distribution_matrix(mood_scores, fp_err)
    /\ matrix_done' = TRUE
    /\ UNCHANGED <<mood_scores, fp_err>>

(***************************************************************************)
(* SpecDream: Dream(...) applied to every combination of arguments.        *)
(***************************************************************************)
CtorTexts ==
    { PyStr(<<>>), PyStr(<<" ">>), PyStr(<<" ", "\n", "\t">>),
      PyStr(<<"f", "l", "y">>), PyStr(<<" ", "f", "l", "y", "\n">>),
      PyStr(<<"a", " ", "b">>), PyStr(<<".">>),
      PyNone, PyInt(0), PyInt(5) }

CtorDates ==
    { PyStr(<<>>), PyStr(<<" ">>),
      PyStr(<<"2", "0", "2", "4", "-", "0", "1", "-", "0", "5">>),
      PyNone, PyInt(0), PyInt(7) }

CtorScores == { PyNone, PyFloat(5000) }

NoArgs == [text |-> PyNone, date |-> PyNone, mood_score |-> PyNone]

\* the values handed to Dream.from_dict: objects with and without the keys,
\* with valid and invalid values, and a value that is no object
DictInputs ==
    { JsonOther,
      JsonObject({}, PyNone, PyNone, PyNone),
      JsonObject({"mood_score"}, PyNone, PyNone, PyFloat(5000)),
      JsonObject({"text"}, PyStr(<<"f", "l", "y">>), PyNone, PyNone),
      JsonObject({"date", "mood_score"}, PyNone, PyStr(Date1), PyFloat(5000)),
      JsonObject({"text", "date"}, PyStr(<<"f", "l", "y">>), PyStr(Date1), PyNone),
      JsonObject({"text", "date"}, PyStr(<<>>), PyStr(Date1), PyNone),
      JsonObject({"text", "date"}, PyStr(<<"f", "l", "y">>), PyInt(7), PyNone),
      JsonObject({"text", "date", "mood_score"}, PyStr(<<" ", "f", "l", "y">>), PyStr(Date1), PyFloat(5000)) }

InitDream ==
    /\ ctor_args \in [text : CtorTexts, date : CtorDates, mood_score : CtorScores]
    /\ ctor_ret = Raised("", "")
    /\ ctor_done = FALSE
    /\ dict_data \in DictInputs
    /\ dict_src = "input"
    /\ dict_ret = Raised("", "")
    /\ dict_done = FALSE

IdleDream ==
    /\ ctor_args = NoArgs
    /\ ctor_ret = Raised("", "")
    /\ ctor_done = FALSE
    /\ dict_data = JsonOther
    /\ dict_src = "input"
    /\ dict_ret = Raised("", "")
    /\ dict_done = FALSE

Construct ==
    /\ ~ctor_done
    /\ ctor_ret' = Dream(ctor_args.text, ctor_args.date, ctor_args.mood_score)
    /\ ctor_done' = TRUE
    /\ UNCHANGED <<ctor_args, dict_data, dict_src, dict_ret, dict_done>>

\* Dream.to_dict of the Entry that Dream(...) returned
ToDict ==
    /\ ctor_done
    /\ ctor_ret.raised = ""
    /\ dict_src = "input"
    /\ ~dict_done
    /\ dict_data' = to_dict(ctor_ret.dream)
    /\ dict_src' = "to_dict"
    /\ UNCHANGED <<ctor_args, ctor_ret, ctor_done, dict_ret, dict_done>>

\* Dream.from_dict of dict_data
FromDict ==
    /\ ~dict_done
    /\ dict_ret' = from_dict(dict_data)
    /\ dict_done' = TRUE
    /\ UNCHANGED <<ctor_args, ctor_ret, ctor_done, dict_data, dict_src>>

(***************************************************************************)
(* Spec: the program.  It starts with DreamJournal("dreams.json") over     *)
(* whatever the file holds; the user then asks for the analysis, or quits  *)
(* and starts the program again.                                           *)
(***************************************************************************)
\* the elements a journal file may hold
RecordPool ==
    { JsonObject({"text", "date"}, PyStr(TextFlying), PyStr(Date1), PyNone),
      JsonObject({"text", "date", "mood_score"}, PyStr(TextFalling), PyStr(Date1), PyFloat(-3000)),
      JsonObject({"text", "date", "mood_score"}, PyStr(TextThemes), PyStr(Date2), PyNone),
      JsonObject({"text", "date", "mood_score"}, PyStr(TextBlank), PyStr(Date1), PyNone),
      JsonOther }

MaxRecords == 3

\* the journal file at the start: absent, not JSON, JSON that is no array, or
\* an array of up to MaxRecords different records of the pool
InitialFiles ==
    {FileAbsent, FileOther, FileGarbage} \cup
    {FileArray(rs) : rs \in {qs \in SeqsUpTo(RecordPool, MaxRecords) :
                                \A i, j \in 1..Len(qs) : qs[i] = qs[j] => i = j}}

ScoreTable(flying, falling, themes, blank) ==
    [x \in JournalTexts |->
        CASE x = TextFlying -> flying
          [] x = strip(TextFalling) -> falling
          [] x = TextThemes -> themes
          [] OTHER -> blank]

\* The scorer: a function from text to compound score, the same throughout a
\* behaviour.
ScoreTables ==
    { ScoreTable(8000, -2000, 0, 0),
      ScoreTable(1000, 1000, 1000, 0),
      ScoreTable(4405, -5000, 999, 0),
      ScoreTable(ScoreMax, ScoreMin, -1001, 0) }

Snapshot(res, ds, f, sv) == [result |-> res, dreams |-> ds, file |-> f, saved |-> sv]

NoSnapshot == Snapshot(NoResult, <<>>, FileAbsent, FALSE)

InitJournal ==
    /\ \E f0 \in InitialFiles :
          \E l \in {load_dreams(f0, FileAbsent, io) : io \in LoadIO} :
              /\ dreams = l.dreams
              /\ file = l.file
              /\ backup = l.backup
    /\ tmp = FALSE
    /\ lexicon \in ScoreTables
    /\ fp_err \in FpErrs
    /\ sia = FALSE
    /\ result = NoResult
    /\ saved = FALSE
    /\ op = "start"
    /\ runs = 0
    /\ prev = NoSnapshot

IdleJournal ==
    /\ dreams = <<>>
    /\ file = FileAbsent
    /\ backup = FileAbsent
    /\ tmp = FALSE
    /\ lexicon = ScoreTable(0, 0, 0, 0)
    /\ sia = FALSE
    /\ result = NoResult
    /\ saved = FALSE
    /\ op = "start"
    /\ runs = 0
    /\ prev = NoSnapshot

\* DreamUI.show_analysis: a new DreamAnalyzer (its scorer initialises or not)
\* and one call of analyze, save_dreams included, and the labels of the
\* text it shows.  runs counts the calls in a
\* row that returned statistics; prev is the state the call started from, kept
\* when that state is itself the outcome of such a call.
Analyze(sia_available) ==
    \E a \in {analyze(dreams, lexicon, sia_available, fp_err)} :
    \E s \in IF a.saves
             THEN {save_dreams(a.dreams, file, tmp, io) : io \in SaveIO}
             ELSE {Saved(FALSE, file, tmp)} :
        /\ dreams' = a.dreams
        /\ file' = s.file
        /\ tmp' = s.tmp
        /\ saved' = s.ok
        /\ sia' = sia_available
        /\ result' = a.result
        /\ op' = "analyze"
        /\ runs' = IF a.result.kind = "stats" THEN (IF runs = 0 THEN 1 ELSE 2) ELSE 0
        /\ prev' = IF runs > 0 THEN Snapshot(result, dreams, file, saved) ELSE NoSnapshot
        /\ labels' = IF a.result.kind = "stats" THEN mood_interps(a.dreams) ELSE <<>>
        /\ UNCHANGED <<backup, lexicon, fp_err>>

\* The program is closed and started again: DreamJournal.__init__.
Restart ==
    \E l \in {load_dreams(file, backup, io) : io \in LoadIO} :
        /\ dreams' = l.dreams
        /\ file' = l.file
        /\ backup' = l.backup
        /\ result' = NoResult
        /\ saved' = FALSE
        /\ op' = "start"
        /\ runs' = 0
        /\ prev' = NoSnapshot
        /\ labels' = <<>>
        /\ UNCHANGED <<tmp, lexicon, sia, fp_err>>

(***************************************************************************)
(* ui.py: validate_date.  datetime.strptime(date_str, "%Y-%m-%d") takes    *)
(* four digits, "-", a month of one or two digits (1..12), "-", and a day  *)
(* of one or two digits (1..31) or a space and one digit; the date must    *)
(* exist in the calendar.  A date is <<year, month, day>>.                 *)
(***************************************************************************)
Digits == <<"0", "1", "2", "3", "4", "5", "6", "7", "8", "9">>

is_digit(c) == \E i \in 1..10 : Digits[i] = c

digit_value(c) == (CHOOSE i \in 1..10 : Digits[i] = c) - 1

RECURSIVE int_of(_)
int_of(s) == IF s = <<>> THEN 0 ELSE 10 * int_of(SubSeq(s, 1, Len(s) - 1)) + digit_value(s[Len(s)])

\* the parts of s between the occurrences of sep
RECURSIVE split_on(_, _, _)
split_on(s, sep, cur) ==
    IF s = <<>> THEN <<cur>>
    ELSE IF Head(s) = sep THEN <<cur>> \o split_on(Tail(s), sep, <<>>)
    ELSE split_on(Tail(s), sep, Append(cur, Head(s)))

all_digits(s) == \A i \in 1..Len(s) : is_digit(s[i])

is_leap(y) == (y % 4 = 0 /\ y % 100 # 0) \/ y % 400 = 0

days_in_month(y, m) ==
    IF m = 2 THEN (IF is_leap(y) THEN 29 ELSE 28)
    ELSE IF m \in {4, 6, 9, 11} THEN 30 ELSE 31

NoDate == <<0, 0, 0>>

\* datetime.strptime(date_str, "%Y-%m-%d").date(); NoDate stands for ValueError
strptime(date_str) ==
    LET parts == split_on(date_str, "-", <<>>)
    IN  IF Len(parts) # 3 THEN NoDate
        ELSE LET ys == parts[1]
                 ms == parts[2]
                 ds == IF Len(parts[3]) = 2 /\ parts[3][1] = " " THEN Tail(parts[3]) ELSE parts[3]
             IN  IF ~(Len(ys) = 4 /\ all_digits(ys)) THEN NoDate
                 ELSE IF ~(Len(ms) \in {1, 2} /\ all_digits(ms)) THEN NoDate
                 ELSE IF ~(Len(ds) \in {1, 2} /\ all_digits(ds)) THEN NoDate
                 ELSE LET y == int_of(ys)
                          m == int_of(ms)
                          d == int_of(ds)
                      IN  IF y < 1 \/ m < 1 \/ m > 12 \/ d < 1 \/ d > days_in_month(y, m)
                          THEN NoDate
                          ELSE <<y, m, d>>

\* dream_date > date.today()
date_after(a, b) ==
    \/ a[1] > b[1]
    \/ a[1] = b[1] /\ a[2] > b[2]
    \/ a[1] = b[1] /\ a[2] = b[2] /\ a[3] > b[3]

\* the digits of n, at least width of them
RECURSIVE zero_padded(_, _)
zero_padded(n, width) ==
    IF width <= 1 /\ n < 10 THEN <<Digits[n + 1]>>
    ELSE Append(zero_padded(n \div 10, width - 1), Digits[(n % 10) + 1])

\* str(dream_date)
str_of_date(d) == zero_padded(d[1], 4) \o <<"-">> \o zero_padded(d[2], 2) \o <<"-">> \o zero_padded(d[3], 2)

\* date.today()
Today == <<2026, 11, 1>>

\* DreamUI.validate_date.  [date, warning]
validate_date(date_str, today) ==
    LET dream_date == strptime(date_str)
    IN  IF dream_date = NoDate
        THEN [date |-> NoDate, warning |-> "Please enter date in YYYY-MM-DD format."]
        ELSE IF date_after(dream_date, today)
        THEN [date |-> NoDate, warning |-> "Dream date cannot be in the future."]
        ELSE [date |-> dream_date, warning |-> ""]

(***************************************************************************)
(* journal.py: save_dreams step by step, for a process that dies inside    *)
(* it.  The steps are: open(temp, "w") creates or truncates the temporary  *)
(* file, json.dump fills it, os.replace / os.rename puts it in the place   *)
(* of the journal file in one step.                                        *)
(***************************************************************************)
CrashPoints == {"before_open", "tmp_opened", "tmp_partial", "tmp_complete", "replaced"}

\* A mutant of save_crash: json.dump writes into the journal file itself.
save_crash_in_place(ds, f, t, at) ==
    CASE at = "before_open" -> Saved(FALSE, f, t)
      [] at = "tmp_opened" -> Saved(FALSE, FileGarbage, t)
      [] at = "tmp_partial" -> Saved(FALSE, FileGarbage, t)
      [] at = "tmp_complete" -> Saved(FALSE, FileArray(to_dicts(ds)), t)
      [] at = "replaced" -> Saved(TRUE, FileArray(to_dicts(ds)), t)

\* the files when the process dies at the point `at` of save_dreams
save_crash(ds, f, t, at) ==
    CASE at = "before_open" -> Saved(FALSE, f, t)
      [] at = "tmp_opened" -> Saved(FALSE, f, TRUE)
      [] at = "tmp_partial" -> Saved(FALSE, f, TRUE)
      [] at = "tmp_complete" -> Saved(FALSE, f, TRUE)
      [] at = "replaced" -> Saved(TRUE, FileArray(to_dicts(ds)), FALSE)

\* the faults of lio that load_dreams runs into when the journal file is f:
\* the file is read when it exists, renamed when it is no JSON, and reset
\* when it is no JSON or no array
met_load(f, lio) ==
    LET reads == f.kind # "absent"
        renames == reads /\ ~lio.read_fails /\ f.kind = "garbage"
        resets == reads /\ ~lio.read_fails /\ f.kind \in {"garbage", "other"}
    IN  [read_fails |-> reads /\ lio.read_fails,
         rename_fails |-> renames /\ lio.rename_fails,
         reset_fails |-> resets /\ lio.reset_fails]

\* the faults of sio that save_dreams runs into when the temporary file
\* exists (t) or not: os.remove is called when a step failed and the
\* temporary file exists then
met_save(t, sio) ==
    [step |-> sio.step,
     remove_fails |-> sio.remove_fails /\ sio.step # "ok" /\ (sio.step = "open_fails" => t)]

\* what a call of save_dreams can lead to: it returns (crashed = FALSE) after
\* the I/O faults io, or the process dies inside it.  [ok, file, tmp, crashed, io]
Outcome(s, crashed, io) == [ok |-> s.ok, file |-> s.file, tmp |-> s.tmp, crashed |-> crashed, io |-> io]

SaveOutcomes(ds, f, t) ==
    {Outcome(save_dreams(ds, f, t, io), FALSE, met_save(t, io)) : io \in SaveIO}
    \cup {Outcome(save_crash(ds, f, t, at), TRUE, SaveOk) : at \in CrashPoints}

(***************************************************************************)
(* journal.py: add_dream and delete_dream, up to the call of save_dreams.  *)
(***************************************************************************)
\* what add_dream leads to up to its call of save_dreams.
\* [raised, dreams, saves]
Added(e, ds, saves) == [raised |-> e, dreams |-> ds, saves |-> saves]

\* A mutant of add_dream: the new entry is put in front.
add_dream_in_front(ds, dream, is_dream) ==
    IF ~is_dream THEN Added("TypeError", ds, FALSE)
    ELSE Added("", <<dream>> \o ds, TRUE)

\* DreamJournal.add_dream(dream); is_dream: isinstance(dream, Dream)
add_dream(ds, dream, is_dream) ==
    IF ~is_dream THEN Added("TypeError", ds, FALSE)
    ELSE Added("", Append(ds, dream), TRUE)

\* what delete_dream returns: the Entry deleted, or None
Deleted(d) == [found |-> TRUE, dream |-> d]

NotFound == [found |-> FALSE, dream |-> NoDream]

\* list.pop(index) for 0 <= index < len
pop(ds, index) == SubSeq(ds, 1, index) \o SubSeq(ds, index + 2, Len(ds))

\* A mutant of delete_dream: the index has no lower limit, and a negative
\* index counts from the end as list.pop does.
delete_dream_no_lower_limit(ds, index) ==
    IF index < Len(ds) /\ -index <= Len(ds)
    THEN LET i == IF index < 0 THEN Len(ds) + index ELSE index
         IN  [ret |-> Deleted(ds[i + 1]), dreams |-> pop(ds, i), saves |-> TRUE]
    ELSE [ret |-> NotFound, dreams |-> ds, saves |-> FALSE]

\* DreamJournal.delete_dream up to the save.  [ret, dreams, saves]
delete_dream(ds, index) ==
    IF 0 <= index /\ index < Len(ds)
    THEN [ret |-> Deleted(ds[index + 1]), dreams |-> pop(ds, index), saves |-> TRUE]
    ELSE [ret |-> NotFound, dreams |-> ds, saves |-> FALSE]

(***************************************************************************)
(* SpecJournal: the journal and the handlers of the UI that change it.     *)
(* The program is off at first, over whatever the files hold; it is        *)
(* started (DreamJournal.__init__), the user adds and deletes dreams, and  *)
(* the process may die inside save_dreams.                                 *)
(***************************************************************************)
TextFly == <<"f", "l", "y">>

TextSea == <<"s", "e", "a">>

\* the elements a journal file may hold: valid records without and with a
\* score, a value that is no object, an object without a date, an object
\* with an empty text, an object whose text is whitespace only
StoreRecords ==
    { JsonObject({"text", "date"}, PyStr(TextFly), PyStr(Date1), PyNone),
      JsonObject({"text", "date", "mood_score"}, PyStr(<<" ">> \o TextSea \o <<"\n">>), PyStr(Date2), PyFloat(-3000)),
      JsonOther,
      JsonObject({"text"}, PyStr(TextFly), PyNone, PyNone),
      JsonObject({"text", "date", "mood_score"}, PyStr(<<>>), PyStr(Date1), PyNone),
      JsonObject({"text", "date", "mood_score"}, PyStr(TextBlank), PyStr(Date1), PyNone) }

\* unparseable contents other than FileGarbage
FileGarbageOld == [kind |-> "garbage", records |-> <<JsonOther>>]

\* a journal file: absent, not JSON, JSON that is no array, or an array of
\* up to MaxRecords different elements of pool
FilesOf(pool) ==
    {FileAbsent, FileOther, FileGarbage} \cup
    {FileArray(rs) : rs \in {qs \in SeqsUpTo(pool, MaxRecords) :
                                \A i, j \in 1..Len(qs) : qs[i] = qs[j] => i = j}}

StoreFiles == FilesOf(StoreRecords)

\* the elements of StoreRecords that load as an Entry
JournalRecords == {r \in StoreRecords : from_dict(r).raised = ""}

JournalFiles == FilesOf(JournalRecords)

\* the I/O faults of the last operation: those of load_dreams and those of
\* save_dreams
IO(l, s) == [load |-> l, save |-> s]

NoIO == IO(NoFailure, SaveOk)

\* the argument of the last operation
Arg(index, text, date) == [index |-> index, text |-> text, date |-> date]

NoArg == Arg(0, <<>>, <<>>)

\* the call of save_dreams of the last operation: whether there was one, and
\* self.dreams at that moment
Saving(ds) == [called |-> TRUE, dreams |-> ds]

NoSaving == [called |-> FALSE, dreams |-> <<>>]

IdleStore ==
    /\ faults = NoIO
    /\ message = ""
    /\ ret = NotFound
    /\ raised = ""
    /\ arg = NoArg
    /\ saving = NoSaving
    /\ faulted = FALSE

InitStore(files) ==
    /\ file \in files
    /\ backup \in {FileAbsent, FileGarbageOld}
    /\ tmp = FALSE
    /\ dreams = <<>>
    /\ op = "off"
    /\ saved = FALSE
    /\ lexicon = ScoreTable(0, 0, 0, 0)
    /\ sia = FALSE
    /\ result = NoResult
    /\ runs = 0
    /\ prev = NoSnapshot
    /\ IdleStore

\* main: DreamJournal("dreams.json"), after the program was closed if it ran
Start ==
    \E l \in {[loaded |-> load_dreams(file, backup, lio), met |-> met_load(file, lio)] : lio \in LoadIO} :
        /\ dreams' = l.loaded.dreams
        /\ file' = l.loaded.file
        /\ backup' = l.loaded.backup
        /\ faults' = IO(l.met, SaveOk)
        /\ op' = "start"
        /\ saved' = FALSE
        /\ message' = ""
        /\ ret' = NotFound
        /\ raised' = ""
        /\ arg' = NoArg
        /\ saving' = NoSaving
        /\ faulted' = FALSE
        /\ UNCHANGED <<tmp, lexicon, sia, result, runs, prev>>

Running == op \notin {"off", "crashed"}

\* a handler that called save_dreams with self.dreams = ds and met outcome o:
\* it went on to show msg and return r, or the process died.  One run of the
\* program meets a fault in save_dreams at most once.
Persist(o, ds, name, msg, r, a) ==
    /\ faulted => (o.io = SaveOk /\ ~o.crashed)
    /\ faulted' = (faulted \/ o.io # SaveOk \/ o.crashed)
    /\ file' = o.file
    /\ tmp' = o.tmp
    /\ faults' = IO(NoFailure, o.io)
    /\ saving' = Saving(ds)
    /\ raised' = ""
    /\ arg' = a
    /\ IF o.crashed
       THEN /\ dreams' = <<>>
            /\ op' = "crashed"
            /\ saved' = FALSE
            /\ message' = ""
            /\ ret' = NotFound
       ELSE /\ dreams' = ds
            /\ op' = name
            /\ saved' = o.ok
            /\ message' = msg
            /\ ret' = r
    /\ UNCHANGED <<backup, lexicon, sia, result, runs, prev>>

\* a handler that returned without a call of save_dreams
Refuse(name, msg, r, e, a) ==
    /\ op' = name
    /\ message' = msg
    /\ ret' = r
    /\ raised' = e
    /\ arg' = a
    /\ saved' = FALSE
    /\ faults' = NoIO
    /\ saving' = NoSaving
    /\ UNCHANGED <<file, backup, tmp, dreams, lexicon, sia, result, runs, prev, faulted>>

\* what the user may have typed into the text box (tkinter appends "\n")
AddTexts == { <<" ", "\t", "\n">>, <<" ">> \o TextSea \o <<"\n">> }

\* what the user may have typed into the date box
AddDates ==
    { Date1,
      <<" ", "2", "0", "2", "4", "-", "1", "-", "5", " ">>,
      <<"0", "5", "/", "0", "1", "/", "2", "0", "2", "4">>,
      <<"2", "9", "9", "9", "-", "0", "1", "-", "0", "1">> }

\* A mutant of ui_add_dream: the Dream gets the date as it was typed.
ui_add_dream_date_as_typed(text_raw, date_raw, today) ==
    LET text == strip(text_raw)
        date_str == strip(date_raw)
    IN  IF text = <<>>
        THEN [warning |-> "Please enter your dream.", made |-> Raised("", "")]
        ELSE LET v == validate_date(date_str, today)
             IN  IF v.date = NoDate
                 THEN [warning |-> v.warning, made |-> Raised("", "")]
                 ELSE [warning |-> "",
                       made |-> Dream(PyStr(text), PyStr(date_str), PyNone)]

\* DreamUI.add_dream up to the call of journal.add_dream, with the text box
\* holding text_raw and the date box date_raw: the warning shown, or the
\* Dream made.  [warning, made]
ui_add_dream(text_raw, date_raw, today) ==
    LET text == strip(text_raw)
        date_str == strip(date_raw)
    IN  IF text = <<>>
        THEN [warning |-> "Please enter your dream.", made |-> Raised("", "")]
        ELSE LET v == validate_date(date_str, today)
             IN  IF v.date = NoDate
                 THEN [warning |-> v.warning, made |-> Raised("", "")]
                 ELSE [warning |-> "",
                       made |-> Dream(PyStr(text), PyStr(str_of_date(v.date)), PyNone)]

\* what the handler does with each input
UiAdds == [x \in AddTexts \X AddDates |-> ui_add_dream(x[1], x[2], Today)]

\* DreamUI.add_dream from the warning or the Dream made (u) on; typed is
\* what is kept of the two boxes' contents
UiAddDreamAs(u, typed) ==
    /\ Running
    /\ Len(dreams) < MaxRecords
    /\ IF u.warning # ""
       THEN Refuse("add", u.warning, NotFound, "", typed)
       ELSE \E a \in {add_dream(dreams, u.made.dream, TRUE)} :
                \E o \in SaveOutcomes(a.dreams, file, tmp) :
                    Persist(o, a.dreams, "add",
                            "Dream saved successfully!", NotFound, typed)

\* DreamUI.add_dream with the text box holding text_raw and the date box
\* date_raw
UiAddDream(text_raw, date_raw) == UiAddDreamAs(UiAdds[<<text_raw, date_raw>>], NoArg)

\* DreamJournal.add_dream with something that is not a Dream
AddNotADream ==
    /\ Running
    /\ \E a \in {add_dream(dreams, NoDream, FALSE)} :
          IF a.saves
          THEN \E o \in SaveOutcomes(a.dreams, file, tmp) :
                   Persist(o, a.dreams, "add_other", "", NotFound, NoArg)
          ELSE Refuse("add_other", "", NotFound, a.raised, NoArg)

\* DreamJournal.delete_dream(index)
DeleteDream(index) ==
    /\ Running
    /\ \E r \in {delete_dream(dreams, index)} :
          IF r.saves
          THEN \E o \in SaveOutcomes(r.dreams, file, tmp) :
                   Persist(o, r.dreams, "delete", "", r.ret, Arg(index, <<>>, <<>>))
          ELSE Refuse("delete", "", r.ret, "", Arg(index, <<>>, <<>>))

\* DreamUI.delete_all_dreams; yes: the user clicked Yes in the dialog
DeleteAll(yes) ==
    /\ Running
    /\ IF dreams = <<>>
       THEN Refuse("delete_all", "No dreams to delete.", NotFound, "", NoArg)
       ELSE IF yes
       THEN \E o \in SaveOutcomes(<<>>, file, tmp) :
                Persist(o, <<>>, "delete_all", "All dreams have been deleted.", NotFound, NoArg)
       ELSE Refuse("delete_all", "", NotFound, "", NoArg)

\* the indexes handed to delete_dream
Indexes == -1..MaxRecords

(***************************************************************************)
(* SpecApp: the journal of one user over several runs of the program:      *)
(* start, add, delete, analysis and the views of the visualizer.  The file *)
(* at the first start is absent or an array of records, one of which       *)
(* carries a mood_score of 7.5.                                            *)
(***************************************************************************)
AppRecords ==
    { JsonObject({"text", "date", "mood_score"}, PyStr(TextFlying), PyStr(Date1), PyNone),
      JsonObject({"text", "date", "mood_score"}, PyStr(TextThemes), PyStr(Date2), PyFloat(75000)),
      JsonObject({"text", "date", "mood_score"}, PyStr(TextFalling), PyStr(Date1), PyFloat(-3000)) }

AppFiles ==
    {FileAbsent} \cup
    {FileArray(rs) : rs \in {qs \in SeqsUpTo(AppRecords, MaxRecords) :
                                \A i, j \in 1..Len(qs) : qs[i] = qs[j] => i = j}}

AppTables == { ScoreTable(4405, -5000, 999, 0), ScoreTable(ScoreMax, ScoreMin, -1001, 0) }

\* what the user types into the two boxes
AppInputs == { <<TextFalling, Date1>>, <<TextBlank, Date1>> }

\* the indexes of the dreams the user deletes
AppIndexes == {0, 1}

AppAdds == [x \in AppInputs |-> ui_add_dream(x[1], x[2], Today)]

InitApp ==
    /\ file \in AppFiles
    /\ backup = FileAbsent
    /\ tmp = FALSE
    /\ dreams = <<>>
    /\ op = "off"
    /\ saved = FALSE
    /\ lexicon \in AppTables
    /\ sia = FALSE
    /\ result = NoResult
    /\ runs = 0
    /\ prev = NoSnapshot
    /\ IdleStore
    /\ IdleView

\* the file system works and the process is not killed
Sound == faults = NoIO /\ op # "crashed"

\* the views show the journal as it is as long as its dreams stay the same
ChartKept ==
    IF dreams' = dreams
    THEN UNCHANGED <<chart, summary>>
    ELSE chart' = NoChart /\ summary' = NoSummary

ViewKept ==
    /\ ChartKept
    /\ labels' = IF dreams' = dreams THEN labels ELSE <<>>

\* DreamUI.show_analysis as one of the operations of a run of the program:
\* the save_dreams of analyze meets a fault or the process dies in it as in
\* Persist.
ShowAnalysis(sia_available) ==
    /\ Running
    /\ \E a \in {analyze(dreams, lexicon, sia_available, fp_err)} :
       \E o \in IF a.saves
                THEN SaveOutcomes(a.dreams, file, tmp)
                ELSE {Outcome(Saved(FALSE, file, tmp), FALSE, SaveOk)} :
          /\ faulted => (o.io = SaveOk /\ ~o.crashed)
          /\ faulted' = (faulted \/ o.io # SaveOk \/ o.crashed)
          /\ file' = o.file
          /\ tmp' = o.tmp
          /\ faults' = IO(NoFailure, o.io)
          /\ saving' = IF a.saves THEN Saving(a.dreams) ELSE NoSaving
          /\ sia' = sia_available
          /\ IF o.crashed
             THEN /\ dreams' = <<>>
                  /\ op' = "crashed"
                  /\ saved' = FALSE
                  /\ result' = NoResult
                  /\ labels' = <<>>
             ELSE /\ dreams' = a.dreams
                  /\ op' = "analyze"
                  /\ saved' = o.ok
                  /\ result' = a.result
                  /\ labels' = IF a.result.kind = "stats" THEN mood_interps(a.dreams) ELSE <<>>
          /\ message' = ""
          /\ ret' = NotFound
          /\ raised' = ""
          /\ arg' = NoArg
          /\ UNCHANGED <<backup, lexicon, runs, prev, fp_err>>

\* DreamUI.refresh_distribution; matplotlib: the import worked
RefreshDistribution(matplotlib) ==
    /\ Running
    /\ chart' = refresh_distribution(dreams, matplotlib)
    /\ UNCHANGED <<journalVars, storeVars, labels, summary>>

\* DreamVisualizer.get_statistics_summary
GetStatisticsSummary ==
    /\ Running
    /\ summary' = get_statistics_summary(dreams)
    /\ UNCHANGED <<journalVars, storeVars, labels, chart>>

(***************************************************************************)
(* SpecAdd: DreamUI.add_dream with what was typed kept in arg.             *)
(***************************************************************************)
TypedTexts == AddTexts \cup { <<"\n">>, TextSea \o <<"\n">> }

TypedDates ==
    AddDates \cup
    { <<>>,
      <<"2", "0", "2", "6", "-", "1", "1", "-", "0", "1">>,
      <<"2", "0", "2", "6", "-", "1", "1", "-", "0", "2">>,
      <<"2", "0", "2", "4", "-", "0", "1", "-", " ", "5">>,
      <<"2", "0", "2", "4", "-", "0", "2", "-", "3", "0">>,
      <<"2", "0", "2", "3", "-", "0", "2", "-", "2", "9">>,
      <<"2", "0", "2", "4", "-", "1", "3", "-", "0", "1">>,
      <<"2", "4", "-", "0", "1", "-", "0", "5">>,
      <<"2", "0", "2", "4", "0", "1", "0", "5">>,
      <<"t", "o", "d", "a", "y">> }

TypedAdds == [x \in TypedTexts \X TypedDates |-> ui_add_dream(x[1], x[2], Today)]

\* the program runs, its journal loaded from no file or from a file of one
\* record, and the two boxes hold arg.text and arg.date
InitAdd ==
    /\ file \in {FileAbsent} \cup {FileArray(<<r>>) : r \in JournalRecords}
    /\ dreams = load_dreams(file, FileAbsent, NoFailure).dreams
    /\ backup = FileAbsent
    /\ tmp = FALSE
    /\ op = "start"
    /\ saved = FALSE
    /\ lexicon = ScoreTable(0, 0, 0, 0)
    /\ sia = FALSE
    /\ result = NoResult
    /\ runs = 0
    /\ prev = NoSnapshot
    /\ faults = NoIO
    /\ message = ""
    /\ ret = NotFound
    /\ raised = ""
    /\ arg \in {Arg(0, x[1], x[2]) : x \in TypedTexts \X TypedDates}
    /\ saving = NoSaving
    /\ faulted = FALSE

\* the Add button is pressed with arg.text and arg.date typed into the boxes
UiAddTyped == UiAddDreamAs(TypedAdds[<<arg.text, arg.date>>], arg)

vars == <<dreamVars, scoreVars, journalVars, storeVars, viewVars, fp_err>>

Init == InitJournal /\ IdleDream /\ IdleScores /\ IdleStore /\ IdleView

Next ==
    \/ \E sia_available \in BOOLEAN :
          Analyze(sia_available) /\ UNCHANGED <<dreamVars, scoreVars, storeVars, chart, summary>>
    \/ Restart /\ UNCHANGED <<dreamVars, scoreVars, storeVars, chart, summary>>

Spec == Init /\ [][Next]_vars

InitDreamOnly == InitDream /\ IdleScores /\ IdleJournal /\ IdleStore /\ IdleView /\ fp_err = 0

NextDream ==
    \/ Construct /\ UNCHANGED <<scoreVars, journalVars, storeVars, viewVars, fp_err>>
    \/ ToDict /\ UNCHANGED <<scoreVars, journalVars, storeVars, viewVars, fp_err>>
    \/ FromDict /\ UNCHANGED <<scoreVars, journalVars, storeVars, viewVars, fp_err>>

SpecDream == InitDreamOnly /\ [][NextDream]_vars

InitScoresOnly == InitScores /\ IdleDream /\ IdleJournal /\ IdleStore /\ IdleView

NextScores == CreateMatrix /\ UNCHANGED <<dreamVars, journalVars, storeVars, viewVars>>

InitJournalOnly == InitStore(JournalFiles) /\ IdleDream /\ IdleScores /\ IdleView /\ fp_err = 0

NextJournal ==
    \/ Start /\ UNCHANGED <<dreamVars, scoreVars, viewVars, fp_err>>
    \/ \E text_raw \in AddTexts, date_raw \in AddDates :
          UiAddDream(text_raw, date_raw) /\ UNCHANGED <<dreamVars, scoreVars, viewVars, fp_err>>
    \/ AddNotADream /\ UNCHANGED <<dreamVars, scoreVars, viewVars, fp_err>>
    \/ \E index \in Indexes :
          DeleteDream(index) /\ UNCHANGED <<dreamVars, scoreVars, viewVars, fp_err>>
    \/ \E yes \in BOOLEAN :
          DeleteAll(yes) /\ UNCHANGED <<dreamVars, scoreVars, viewVars, fp_err>>

SpecJournal == InitJournalOnly /\ [][NextJournal]_vars

InitLoadOnly == InitStore(StoreFiles) /\ IdleDream /\ IdleScores /\ IdleView /\ fp_err = 0

NextLoad == Start /\ UNCHANGED <<dreamVars, scoreVars, viewVars, fp_err>>

SpecLoad == InitLoadOnly /\ [][NextLoad]_vars

InitAppOnly == InitApp /\ IdleDream /\ IdleScores /\ fp_err = 0

NextApp ==
    \/ Start /\ Sound' /\ UNCHANGED <<dreamVars, scoreVars, fp_err>>
             /\ labels' = <<>> /\ chart' = NoChart /\ summary' = NoSummary
    \/ \E x \in AppInputs :
          UiAddDreamAs(AppAdds[x], NoArg) /\ Sound' /\ ViewKept
              /\ UNCHANGED <<dreamVars, scoreVars, fp_err>>
    \/ \E index \in AppIndexes :
          DeleteDream(index) /\ Sound' /\ ViewKept
              /\ UNCHANGED <<dreamVars, scoreVars, fp_err>>
    \/ \E sia_available \in BOOLEAN :
          ShowAnalysis(sia_available) /\ Sound' /\ ChartKept
              /\ UNCHANGED <<dreamVars, scoreVars>>
    \/ \E matplotlib \in BOOLEAN :
          RefreshDistribution(matplotlib) /\ UNCHANGED <<dreamVars, scoreVars, fp_err>>
    \/ GetStatisticsSummary /\ UNCHANGED <<dreamVars, scoreVars, fp_err>>

SpecApp == InitAppOnly /\ [][NextApp]_vars

InitAddOnly == InitAdd /\ IdleDream /\ IdleScores /\ IdleView /\ fp_err = 0

NextAdd == UiAddTyped /\ UNCHANGED <<dreamVars, scoreVars, viewVars, fp_err>>

SpecAdd == InitAddOnly /\ [][NextAdd]_vars

SpecScores == InitScoresOnly /\ [][NextScores]_vars

(***************************************************************************)
(* The claims.                                                             *)
(***************************************************************************)
\* the bucket the stated thresholds give a score
ThresholdBucket(x) ==
    IF x >= 5000 THEN 0
    ELSE IF x >= 1000 THEN 1
    ELSE IF x >= -1000 THEN 2
    ELSE IF x >= -5000 THEN 3
    ELSE 4

\* the scores of xs that the thresholds put in bucket b, in order
RECURSIVE InBucket(_, _)
InBucket(xs, b) ==
    IF xs = <<>> THEN <<>>
    ELSE (IF ThresholdBucket(Head(xs)) = b THEN <<Head(xs)>> ELSE <<>>) \o InBucket(Tail(xs), b)

\* C1: every score of [-1.0, 1.0] classified at depth 0 gets the one bucket
\* the thresholds give it (>= 0.5 Very Positive, >= 0.1 Positive, >= -0.1
\* Neutral, >= -0.5 Negative, else Very Negative), never through the
\* depth-limit default; and the five counts of the matrix of any list of
\* scores sum to the number of scores.
C1_BucketsFollowThresholds ==
    matrix_done =>
        /\ \A i \in 1..Len(mood_scores) :
              /\ category_idx[i].idx \in 0..4
              /\ category_idx[i].idx = ThresholdBucket(mood_scores[i])
              /\ ~category_idx[i].hit_limit
        /\ \A b \in 1..5 : mood_matrix[b].count = Len(InBucket(mood_scores, b - 1))
        /\ mood_matrix[1].count + mood_matrix[2].count + mood_matrix[3].count
              + mood_matrix[4].count + mood_matrix[5].count = Len(mood_scores)

\* C1 witness: three scores on and next to the boundaries have been classified.
C1_Witness ==
    /\ matrix_done
    /\ mood_scores = <<1000, -5000, -1001>>
    /\ mood_matrix[2].count = 1
    /\ mood_matrix[4].count = 2

\* what C2 says of every row but the average: five rows in the order Very
\* Positive .. Very Negative, count, minimum and maximum of the bucket's
\* members, the average the quotient of their sum and their number; the row
\* of an empty bucket is (0, +1.0, -1.0, 0)
RowsAsStated ==
    /\ DOMAIN mood_matrix = 1..5
    /\ \A b \in 1..5 :
          LET cs == InBucket(mood_scores, b - 1)
              row == mood_matrix[b]
          IN  IF cs # <<>>
              THEN /\ row.count = Len(cs)
                   /\ row.min = seq_min(cs)
                   /\ row.max = seq_max(cs)
                   /\ row.avg.num * Len(cs) = sum(cs) * row.avg.den
              ELSE row = MatrixRow(0, ScoreMax, ScoreMin, FloatZero)

C3_AnalyzeOutcomes ==
    [][op' = "analyze" =>
          /\ dreams = <<>> => result'.kind = "empty"
          /\ (dreams # <<>> /\ ~sia') => result'.kind = "unavailable"
          /\ (dreams # <<>> /\ sia') => result'.kind = "stats"
          /\ result'.kind \in {"empty", "unavailable"} =>
                /\ dreams' = dreams
                /\ file' = file
                /\ backup' = backup
                /\ tmp' = tmp
                /\ ~saved'
    ]_vars

\* C3 witness: analyze without a scorer has returned Unavailable on a journal
\* of two dreams, one of them not scored.
C3_Witness ==
    /\ op = "analyze"
    /\ result.kind = "unavailable"
    /\ ~sia
    /\ Len(dreams) = 2
    /\ dreams[1].mood_score = PyNone

\* the scores the entries carry
RECURSIVE EntryScores(_)
EntryScores(ds) ==
    IF ds = <<>> THEN <<>> ELSE <<Head(ds).mood_score.n>> \o EntryScores(Tail(ds))

AllScored(ds, lex) ==
    \A i \in 1..Len(ds) : ds[i].mood_score = PyFloat(lex[ds[i].text])

\* C4: after an analyze that returned statistics and whose save worked, every
\* entry carries the scorer's score of its text, and a fresh load of the file
\* returns the same entries, in the same order, with these scores.
C4_ScoresSurviveRestart ==
    (op = "analyze" /\ result.kind = "stats" /\ saved) =>
        /\ AllScored(dreams, lexicon)
        /\ load_dreams(file, backup, NoFailure).dreams = dreams

\* C5: average_mood is the mean of the entries' scores rounded to three
\* decimals (it is a multiple of 0.001 at most 0.0005 away from the mean),
\* total_dreams is the number of entries, and the scores 0.8, -0.2, 0.0 give
\* 0.200.
C5_AverageMood ==
    (op = "analyze" /\ result.kind = "stats") =>
        LET xs == EntryScores(dreams)
            n == Len(dreams)
            off == 10 * n * result.average_mood - sum(xs)
        IN  /\ result.total_dreams = n
            /\ Len(xs) = n
            /\ off <= 5 * n
            /\ -off <= 5 * n
            /\ xs = <<8000, -2000, 0>> => result.average_mood = 200

\* C5 witness: the analysis of three dreams scored 0.8, -0.2 and 0.0.
C5_Witness ==
    /\ op = "analyze"
    /\ result.kind = "stats"
    /\ EntryScores(dreams) = <<8000, -2000, 0>>
    /\ result.total_dreams = 3

\* the test C6 states for a token
IsTheme(w) ==
    /\ \A i \in 1..Len(w) : w[i] \in Alpha
    /\ Len(w) > 2
    /\ w \notin stop_words

RECURSIVE Themes(_)
Themes(tokens) ==
    IF tokens = <<>> THEN <<>>
    ELSE (IF IsTheme(Head(tokens)) THEN <<Head(tokens)>> ELSE <<>>) \o Themes(Tail(tokens))

\* the tokens of each journal text that pass the test
ThemesOfText == [t \in JournalTexts |-> Themes(split(lower(t)))]

\* the tokens of all entries that pass the test, in journal order
RECURSIVE ThemeTokens(_)
ThemeTokens(ds) ==
    IF ds = <<>> THEN <<>>
    ELSE ThemesOfText[Head(ds).text] \o ThemeTokens(Tail(ds))

Occurrences(tokens, w) == Cardinality({i \in 1..Len(tokens) : tokens[i] = w})

FirstOccurrence(tokens, w) == CHOOSE i \in 1..Len(tokens) : tokens[i] = w /\ \A j \in 1..(i - 1) : tokens[j] # w

SeqRange(s) == {s[i] : i \in 1..Len(s)}

WordFlying == <<"f", "l", "y", "i", "n", "g">>

WordOcean == <<"o", "c", "e", "a", "n">>

\* C6: a theme is a token of the lower-cased, whitespace-split text that is
\* all alphabetic, longer than 2 and no stop word; every other token (a word
\* with punctuation attached too) contributes nothing; up to ten distinct
\* themes all are reported; "I was flying over the ocean and flying again"
\* gives flying, ocean and nothing else.
C6_ThemeExtraction ==
    (op = "analyze" /\ result.kind = "stats") =>
        LET tokens == ThemeTokens(dreams)
        IN  /\ SeqRange(result.top_themes) \subseteq SeqRange(tokens)
            /\ Cardinality(SeqRange(tokens)) <= TopThemes =>
                  SeqRange(result.top_themes) = SeqRange(tokens)
            /\ (Len(dreams) = 1 /\ dreams[1].text = TextFlying) =>
                  /\ result.top_themes = <<WordFlying, WordOcean>>
                  /\ Occurrences(tokens, WordFlying) = 2
                  /\ Occurrences(tokens, WordOcean) = 1

\* C6 witness: the analysis of the one dream "I was flying over the ocean and
\* flying again".
C6_Witness ==
    /\ op = "analyze"
    /\ result.kind = "stats"
    /\ Len(dreams) = 1
    /\ dreams[1].text = TextFlying
    /\ result.top_themes = <<WordFlying, WordOcean>>

\* C7: top_themes holds at most 10 distinct tokens (all of them when there
\* are no more than 10), by non-increasing frequency over all entries' texts,
\* equal frequencies in the order of first occurrence, and no token left out
\* is more frequent than one that is in.
C7_TopThemesOrder ==
    (op = "analyze" /\ result.kind = "stats") =>
        LET tokens == ThemeTokens(dreams)
            top == result.top_themes
            distinct == Cardinality(SeqRange(tokens))
        IN  /\ Len(top) = IF distinct < 10 THEN distinct ELSE 10
            /\ SeqRange(top) \subseteq SeqRange(tokens)
            /\ \A i, j \in 1..Len(top) :
                  i < j =>
                      /\ top[i] # top[j]
                      /\ Occurrences(tokens, top[i]) >= Occurrences(tokens, top[j])
                      /\ Occurrences(tokens, top[i]) = Occurrences(tokens, top[j]) =>
                            FirstOccurrence(tokens, top[i]) < FirstOccurrence(tokens, top[j])
            /\ \A w \in SeqRange(tokens) \ SeqRange(top) :
                  \A i \in 1..Len(top) : Occurrences(tokens, w) <= Occurrences(tokens, top[i])

\* C7 witness: an analysis with more than ten distinct themes, of which ten
\* are reported, two of them equally frequent.
C7_Witness ==
    /\ op = "analyze"
    /\ result.kind = "stats"
    /\ Cardinality(SeqRange(ThemeTokens(dreams))) > 10
    /\ Len(result.top_themes) = 10
    /\ Occurrences(ThemeTokens(dreams), result.top_themes[1])
          = Occurrences(ThemeTokens(dreams), result.top_themes[2])
    /\ Len(dreams) > 1

\* C8: a second analyze right after one that returned statistics returns the
\* same statistics and leaves the same mood_scores, and the same file when
\* the first one saved it; the scores it leaves are the scorer's, whatever
\* the entries carried before.
C8_AnalyzeTwice ==
    /\ runs = 2 =>
          /\ result = prev.result
          /\ dreams = prev.dreams
          /\ prev.saved => file = prev.file
    /\ runs > 0 => AllScored(dreams, lexicon)
    /\ (runs > 0 /\ saved) => file = FileArray(to_dicts(dreams))

\* C8 witness: two analyses in a row, both saved, of a journal one of whose
\* entries came with another score from the file.
C8_Witness ==
    /\ runs = 2
    /\ saved
    /\ prev.saved
    /\ \E i \in 1..Len(dreams) :
          /\ dreams[i].text = strip(TextFalling)
          /\ dreams[i].mood_score # PyFloat(-3000)

HasNoOuterWhitespace(s) == s = <<>> \/ (s[1] \notin Whitespace /\ s[Len(s)] \notin Whitespace)

\* C9: every Entry that the construction returns has a text that is not
\* empty and has no leading or trailing whitespace; a text of whitespace
\* only does not yield an Entry with empty text.
C9_TextNonEmptyAndTrimmed ==
    (ctor_done /\ ctor_ret.raised = "") =>
        /\ ctor_ret.dream.text # <<>>
        /\ HasNoOuterWhitespace(ctor_ret.dream.text)

\* "empty or not a string"
EmptyOrNotStr(v) == v.t # "str" \/ v.s = <<>>

\* C10: the construction raises ValueError and yields no Entry whenever the
\* text is empty or not a string or the date is empty or not a string; the
\* text is checked first.
C10_ValidationError ==
    ctor_done =>
        /\ (EmptyOrNotStr(ctor_args.text) \/ EmptyOrNotStr(ctor_args.date)) =>
              /\ ctor_ret.raised = "ValueError"
              /\ ctor_ret.dream = NoDream
        /\ EmptyOrNotStr(ctor_args.text) =>
              ctor_ret.msg = "Dream text must be a non-empty string"
        /\ (~EmptyOrNotStr(ctor_args.text) /\ EmptyOrNotStr(ctor_args.date)) =>
              ctor_ret.msg = "Dream date must be a non-empty string"

\* C10 witness: a construction whose text and date are both invalid has
\* raised.
C10_Witness ==
    /\ ctor_done
    /\ EmptyOrNotStr(ctor_args.text)
    /\ EmptyOrNotStr(ctor_args.date)
    /\ ctor_ret.raised = "ValueError"

\* C11: an Entry that the construction returned, turned into a record by
\* to_dict and back by from_dict, comes back as an Entry with the same text,
\* date and mood_score.
C11_RoundTrip ==
    (dict_done /\ dict_src = "to_dict") => dict_ret = Returned(ctor_ret.dream)

\* C12: from_dict raises TypeError for a value that is no object, KeyError
\* for an object without the key text or without the key date, and an Entry
\* made from an object without the key mood_score has mood_score None; an
\* object with a valid text and date and no mood_score key does yield one.
C12_FromDictErrors ==
    (dict_done /\ dict_src = "input") =>
        /\ dict_data.t # "dict" => dict_ret.raised = "TypeError"
        /\ (dict_data.t = "dict" /\ ("text" \notin dict_data.keys \/ "date" \notin dict_data.keys)) =>
              dict_ret.raised = "KeyError"
        /\ (dict_data.t = "dict" /\ {"text", "date"} \subseteq dict_data.keys
                /\ "mood_score" \notin dict_data.keys) =>
              /\ dict_ret.raised = "" => dict_ret.dream.mood_score = PyNone
              /\ (~EmptyOrNotStr(dict_data.text) /\ ~EmptyOrNotStr(dict_data.date)) =>
                    dict_ret.raised = ""
        /\ dict_ret.raised # "" => dict_ret.dream = NoDream

\* C12 witness: from_dict was called with an object lacking a key, with a
\* value that is no object, or with an object that has no mood_score key and
\* gave an Entry.
C12_Witness ==
    /\ dict_done
    /\ dict_src = "input"
    /\ dict_data = JsonObject({"text", "date"}, PyStr(<<"f", "l", "y">>), PyStr(Date1), PyNone)
    /\ dict_ret.raised = ""
    /\ dict_ret.dream.mood_score = PyNone

\* C13: after an operation whose save worked, a load of the file without I/O
\* failure returns the entries of the journal, as many, in the same order,
\* field by field; and a journal started over no file has no entries and
\* there is still no file.
C13_SaveThenLoad ==
    /\ saved => load_dreams(file, backup, NoFailure).dreams = dreams
    /\ (op = "start" /\ file = FileAbsent) => dreams = <<>>

\* "fails Entry validation": not a record, no text or no date, a text or a
\* date that is empty or not a string
FailsValidation(r) ==
    \/ r.t # "dict"
    \/ "text" \notin r.keys
    \/ "date" \notin r.keys
    \/ EmptyOrNotStr(r.text)
    \/ EmptyOrNotStr(r.date)

\* the records that pass, as Entries, in file order
RECURSIVE ValidEntries(_)
ValidEntries(rs) ==
    IF rs = <<>> THEN <<>>
    ELSE (IF FailsValidation(Head(rs)) THEN <<>>
          ELSE <<[text |-> strip(Head(rs).text.s),
                  date |-> Head(rs).date.s,
                  mood_score |-> IF "mood_score" \in Head(rs).keys
                                 THEN Head(rs).mood_score ELSE PyNone]>>)
         \o ValidEntries(Tail(rs))

\* C14: a load, without I/O failure, of a file holding an array returns the
\* records that pass Entry validation, in file order, and skips the others.
C14_LoadSkipsInvalid ==
    [][(op' = "start" /\ file.kind = "array" /\ faults'.load = NoFailure) =>
           dreams' = ValidEntries(file.records)]_vars

\* C15: a load, without I/O failure, of a file that is no JSON leaves the
\* contents under the backup path, an empty array in the journal file, and
\* returns no entries; a load after it returns no entries and leaves both
\* files as they are.
C15_GarbageBackedUp ==
    [][(op' = "start" /\ file.kind = "garbage" /\ faults'.load = NoFailure) =>
           /\ backup' = file
           /\ file' = FileArray(<<>>)
           /\ dreams' = <<>>
           /\ load_dreams(file', backup', NoFailure) = Loaded(<<>>, file', backup')]_vars

\* C15 witness: the program was started over a file that is no JSON, the
\* backup holds it and the journal file an empty array.
C15_Witness ==
    /\ op = "start"
    /\ faults.load = NoFailure
    /\ backup = FileGarbage
    /\ file = FileArray(<<>>)
    /\ dreams = <<>>

\* C16: a load, without I/O failure, of a file that is JSON but no array
\* leaves the contents under the backup path, an empty array in the journal
\* file, and returns no entries.
C16_NonArrayBackedUp ==
    [][(op' = "start" /\ file.kind = "other" /\ faults'.load = NoFailure) =>
           /\ backup' = file
           /\ file' = FileArray(<<>>)
           /\ dreams' = <<>>]_vars

C18_FailedSave ==
    [][(saving'.called /\ op' # "crashed" /\ faults'.save.step # "ok"
            /\ ~faults'.save.remove_fails) =>
           /\ raised' = ""
           /\ ~tmp'
           /\ file' = file
           /\ dreams' = saving'.dreams
           /\ ~saved']_vars

\* C18 witness: an add whose save could not replace the journal file, with
\* the temporary file gone.
C18_Witness ==
    /\ op = "add"
    /\ saving.called
    /\ faults.save.step = "replace_fails"
    /\ ~faults.save.remove_fails
    /\ ~tmp
    /\ ~saved
    /\ dreams # <<>>
    /\ file # FileArray(to_dicts(dreams))

\* C19: an add whose save failed is not announced as saved.
C19_FailedSaveReported ==
    (op = "add" /\ saving.called /\ ~saved) => message # "Dream saved successfully!"

\* C20: delete_dream(i) with 0 <= i < length returns the entry at i, leaves
\* the other entries in their order, and saves them (the file holds them
\* when the save worked); with any other i it returns None, leaves the
\* entries and the files alone and saves nothing.
C20_Delete ==
    [][op' = "delete" =>
           LET i == arg'.index
           IN  IF 0 <= i /\ i < Len(dreams)
               THEN /\ ret' = Deleted(dreams[i + 1])
                    /\ Len(dreams') = Len(dreams) - 1
                    /\ \A k \in 1..Len(dreams') :
                          dreams'[k] = IF k <= i THEN dreams[k] ELSE dreams[k + 1]
                    /\ saving' = Saving(dreams')
                    /\ saved' => file' = FileArray(to_dicts(dreams'))
               ELSE /\ ret' = NotFound
                    /\ dreams' = dreams
                    /\ file' = file
                    /\ tmp' = tmp
                    /\ ~saving'.called]_vars

\* C20 witness: the middle one of three entries was deleted and the two
\* others saved.
C20_Witness ==
    /\ op = "delete"
    /\ arg.index = 1
    /\ ret.found
    /\ Len(dreams) = 2
    /\ dreams[1] # dreams[2]
    /\ saved
    /\ file = FileArray(to_dicts(dreams))

\* C21: an add, a delete that found its entry and a delete-all that went
\* through, each without an I/O fault in save_dreams, leave in the file
\* the records of the entries in memory, one for one and in their order; an
\* add puts the new entry after the entries there were; adding something
\* that is no Dream raises TypeError and leaves the entries and the file
\* alone.
C21_FileHoldsEntries ==
    [][/\ (/\ op' \in {"add", "delete", "delete_all"}
           /\ saving'.called
           /\ faults'.save = SaveOk)
          => /\ file'.kind = "array"
             /\ Len(file'.records) = Len(dreams')
             /\ \A k \in 1..Len(dreams') :
                   file'.records[k] =
                       JsonObject({"text", "date", "mood_score"},
                                  PyStr(dreams'[k].text), PyStr(dreams'[k].date),
                                  dreams'[k].mood_score)
       /\ (op' = "add" /\ saving'.called)
          => /\ Len(dreams') = Len(dreams) + 1
             /\ SubSeq(dreams', 1, Len(dreams)) = dreams
             /\ saving'.dreams = dreams'
       /\ op' = "add_other"
          => /\ raised' = "TypeError"
             /\ dreams' = dreams
             /\ file' = file
             /\ tmp' = tmp
             /\ ~saving'.called]_vars

\* C21 witness: an entry was added behind a different one and the file
\* holds both in that order.
C21_Witness ==
    /\ op = "add"
    /\ saving.called
    /\ faults.save = SaveOk
    /\ Len(dreams) = 2
    /\ dreams[1] # dreams[2]
    /\ dreams[2].text = TextSea
    /\ file = FileArray(to_dicts(dreams))

\* C21 witness of the other operations: a delete-all went through and the
\* file holds the empty array.
C21_WitnessDeleteAll ==
    /\ op = "delete_all"
    /\ saving.called
    /\ faults.save = SaveOk
    /\ dreams = <<>>
    /\ file = FileArray(<<>>)

\* a mood_score that is absent or a number of [-1.0, 1.0]
ScoreAsStated(v) ==
    \/ v = PyNone
    \/ /\ v.t \in {"int", "float"}
       /\ ScoreMin <= v.n
       /\ v.n <= ScoreMax

\* C22: in every state reached by load, add, delete and analyze, every
\* entry of the journal has no mood_score or one that is a number of
\* [-1.0, 1.0].
C22_ScoreInRange ==
    \A i \in 1..Len(dreams) : ScoreAsStated(dreams[i].mood_score)

\* C22, the submitted entry: the entry an add appends has no mood_score, and
\* add and delete leave the mood_score of every entry they keep as it was;
\* an analysis that returns statistics gives every entry a score of
\* [-1.0, 1.0].
C22_SubmittedUnscored ==
    [][/\ (op' = "add" /\ Len(dreams') > Len(dreams))
          => /\ dreams'[Len(dreams')].mood_score = PyNone
             /\ \A i \in 1..Len(dreams) : dreams'[i].mood_score = dreams[i].mood_score
       /\ (op' = "delete" /\ Len(dreams') < Len(dreams))
          => \A k \in 1..Len(dreams') :
                 dreams'[k].mood_score =
                     (IF k <= arg'.index THEN dreams[k] ELSE dreams[k + 1]).mood_score
       /\ (op' = "analyze" /\ result'.kind = "stats")
          => \A i \in 1..Len(dreams') :
                 /\ dreams'[i].mood_score # PyNone
                 /\ ScoreAsStated(dreams'[i].mood_score)]_vars

\* the characters of s are digits
OnlyDigits(s) == \A i \in 1..Len(s) : \E j \in 1..10 : Digits[j] = s[i]

\* s is written YYYY-MM-DD
IsCanonicalDate(s) ==
    /\ Len(s) = 10
    /\ s[5] = "-"
    /\ s[8] = "-"
    /\ OnlyDigits(SubSeq(s, 1, 4) \o SubSeq(s, 6, 7) \o SubSeq(s, 9, 10))

\* C23: the add of the UI, with the text and the date typed: when the text
\* without its outer whitespace is not empty and the date parses and is
\* not after today, the journal gets one entry more, with that text, the
\* date written YYYY-MM-DD and no mood_score, and save_dreams is called; in
\* every other case a warning is shown and the entries and the files stay
\* as they were.
C23_UiAdd ==
    [][op' = "add" =>
           LET text == strip(arg'.text)
               day == strptime(strip(arg'.date))
           IN  IF text # <<>> /\ day # NoDate /\ ~date_after(day, Today)
               THEN /\ saving'.called
                    /\ dreams' = saving'.dreams
                    /\ Len(dreams') = Len(dreams) + 1
                    /\ SubSeq(dreams', 1, Len(dreams)) = dreams
                    /\ dreams'[Len(dreams')].text = text
                    /\ dreams'[Len(dreams')].mood_score = PyNone
                    /\ IsCanonicalDate(dreams'[Len(dreams')].date)
                    /\ strptime(dreams'[Len(dreams')].date) = day
               ELSE /\ ~saving'.called
                    /\ message' # ""
                    /\ message' # "Dream saved successfully!"
                    /\ dreams' = dreams
                    /\ file' = file
                    /\ backup' = backup
                    /\ tmp' = tmp]_vars

\* C23 witness: a date typed as " 2024-1-5 " was stored as 2024-01-05.
C23_Witness ==
    /\ op = "add"
    /\ saving.called
    /\ arg.date = <<" ", "2", "0", "2", "4", "-", "1", "-", "5", " ">>
    /\ dreams # <<>>
    /\ dreams[Len(dreams)].date = Date1
    /\ dreams[Len(dreams)].text = TextSea
    /\ dreams[Len(dreams)].mood_score = PyNone

\* C23 witness of a refusal: a date after today was typed with a text.
C23_WitnessFuture ==
    /\ op = "add"
    /\ ~saving.called
    /\ strip(arg.text) = TextSea
    /\ arg.date = <<"2", "0", "2", "6", "-", "1", "1", "-", "0", "2">>
    /\ message = "Dream date cannot be in the future."

\* the label show_analysis gives a score of bucket b of the matrix
LabelOfBucket(b) == <<"(Very Positive)", "(Positive)", "(Neutral)", "(Negative)", "(Very Negative)">>[b + 1]

\* the sum of the five counts of a distribution
CountSum(counts) ==
    counts["Very Positive"] + counts["Positive"] + counts["Neutral"]
        + counts["Negative"] + counts["Very Negative"]

\* the number of dreams that have a mood_score
NumScored(ds) == Cardinality({i \in 1..Len(ds) : ds[i].mood_score # PyNone})

\* the last operation was an analysis that returned statistics
JustAnalyzed == op = "analyze" /\ result.kind = "stats"

\* the last operation was an add that put an entry into the journal
JustAdded == op = "add" /\ saving.called

\* C24: right after an analysis that returned statistics, the counts of
\* get_statistics_summary and the bars of create_mood_distribution equal
\* the count column of the analyzer's matrix, bucket for bucket, and the
\* label behind each entry's score names the bucket the analyzer counted
\* that score in; right after an add, the counts and the bars sum to the
\* number of entries that have a score, which is less than the number of
\* entries.
C24_ViewsAgreeWithMatrix ==
    /\ (JustAnalyzed /\ chart.shows = "bars")
       => \A i \in 1..5 : chart.bars[MoodCategories[i]] = result.mood_matrix[i].count
    /\ (JustAnalyzed /\ summary.kind = "dict")
       => /\ \A i \in 1..5 :
                summary.mood_distribution[MoodCategories[i]] = result.mood_matrix[i].count
          /\ summary.total_dreams = result.total_dreams
          /\ summary.has_mood_scores
    /\ JustAnalyzed
       => /\ Len(labels) = Len(dreams)
          /\ \A k \in 1..Len(dreams) :
                labels[k] = LabelOfBucket(categorize_mood_recursive(dreams[k].mood_score.n, 0))
    /\ (JustAdded /\ chart.shows = "bars")
       => /\ CountSum(chart.bars) = NumScored(dreams)
          /\ CountSum(chart.bars) < Len(dreams)
    /\ (JustAdded /\ summary.kind = "dict")
       => /\ CountSum(summary.mood_distribution) = NumScored(dreams)
          /\ CountSum(summary.mood_distribution) < Len(dreams)

\* C24 witness: three entries were analysed into three buckets and both
\* views were computed.
C24_Witness ==
    /\ JustAnalyzed
    /\ chart.shows = "bars"
    /\ summary.kind = "dict"
    /\ Len(dreams) = 3
    /\ Cardinality({i \in 1..5 : result.mood_matrix[i].count = 1}) = 3
    /\ \E k \in 1..3 : dreams[k].mood_score = PyFloat(-5000)

\* C24 witness of the add: an entry was added to two scored ones and both
\* views were computed.
C24_WitnessAdd ==
    /\ JustAdded
    /\ chart.shows = "bars"
    /\ summary.kind = "dict"
    /\ Len(dreams) = 3
    /\ NumScored(dreams) = 2

====
